---------------------------- MODULE Spec2Model ----------------------------
(***************************************************************************)
(* Model of the pricing / consolidation engine of                          *)
(* Gemini-pipeline/src/Estimation/estimate_builder.py.                     *)
(*                                                                         *)
(* Prices are whole dollars.  A Python dict is a record with a `keys`      *)
(* field naming the keys that are present; d.get(k, default) is Get.       *)
(* A free text (title, description, notes) is the set of the keywords of   *)
(* the code's vocabularies that occur in it.                               *)
(***************************************************************************)
EXTENDS Integers, Sequences, FiniteSets, TLC

VARIABLES
    fn,        \* pure-function harness: the function under evaluation
    arg,       \* pure-function harness: its argument
    ret,       \* pure-function harness: the results of the calls made so far
    pc,        \* Phase 1 runs: position of each run in call_gemini_for_individual_pricing
    p1_issues, \* Phase 1 runs: the normalized issue list each run was given
    p1_idx,    \* Phase 1 runs: loop index (issues priced so far) of each run
    p1_items,  \* Phase 1 runs: priced_items list of each run
    p1_ret,    \* Phase 1 runs: value returned by each run
    p1_calls,  \* Phase 1 runs: oracle calls made by each run
    p1_log,    \* Phase 1 runs: per issue, how the row was obtained ("oracle"/"fallback")
    p1_after,  \* Phase 1 runs: the runs over the same list that had returned when this one began
    cache,     \* .estimate_cache: cache key -> file content (absent keys have no file)
    mpc,       \* main(): position in the pipeline
    margs,     \* main(): command line flags and environment
    findings,  \* main(): issues loaded from the findings file
    normalized_issues, \* main(): issues normalized for pricing
    items,     \* main(): current item list
    diag,      \* main(): the diagnostics (<<>> before they are computed)
    estimate,  \* main(): the assembled estimate document (<<>> before assembly)
    io         \* main(): the cache accesses and oracle calls made so far, in order

vars == <<fn, arg, ret, pc, p1_issues, p1_idx, p1_items, p1_ret, p1_calls, p1_log,
          p1_after, cache, mpc, margs, findings, normalized_issues, items, diag, estimate, io>>

fnVars == <<fn, arg, ret>>
p1Vars == <<pc, p1_issues, p1_idx, p1_items, p1_ret, p1_calls, p1_log, p1_after, cache>>
mainVars == <<mpc, margs, findings, normalized_issues, items, diag, estimate, io>>

-----------------------------------------------------------------------------
(* Generic helpers *)

Max(a, b) == IF a >= b THEN a ELSE b
Min(a, b) == IF a <= b THEN a ELSE b

\* math.ceil(a / b) for a >= 0, b > 0
Ceil(a, b) == (a + b - 1) \div b

\* Python round(num / den): nearest integer, ties to the even one (num >= 0, den > 0)
RoundHalfEven(num, den) ==
    LET q == num \div den
        r == num % den
    IN  IF 2 * r > den THEN q + 1
        ELSE IF 2 * r < den THEN q
        ELSE IF q % 2 = 0 THEN q ELSE q + 1

\* d.get(k, default)
Get(d, k, default) == IF k \in d.keys THEN d[k] ELSE default

RECURSIVE SumSeq(_)
SumSeq(s) == IF s = <<>> THEN 0 ELSE Head(s) + SumSeq(Tail(s))

RECURSIVE Concat(_)
Concat(ss) == IF ss = <<>> THEN <<>> ELSE Head(ss) \o Concat(Tail(ss))

\* n copies of x
Rep(x, n) == [i \in 1..n |-> x]

-----------------------------------------------------------------------------
(* Strings that get normalised.  A raw string is its case-folded text, its *)
(* casing and whether it carries leading/trailing whitespace.              *)

Str(txt, cas, pad) == [txt |-> txt, cas |-> cas, pad |-> pad]
Upper(s) == [s EXCEPT !.cas = "upper"]
Lower(s) == [s EXCEPT !.cas = "lower"]
Strip(s) == [s EXCEPT !.pad = FALSE]

\* the string literal "ROOF", "minor", ... as written in the source
UpperLit(txt) == Str(txt, "upper", FALSE)
LowerLit(txt) == Str(txt, "lower", FALSE)

-----------------------------------------------------------------------------
(* Static tables *)

CATEGORIES == <<"plumbing", "electrical", "hvac", "roof", "foundation",
                "windows/doors", "attic", "miscellaneous">>

CategorySet == {CATEGORIES[i] : i \in DOMAIN CATEGORIES}

Severities == {"minor", "moderate", "major", "critical"}

\* CATEGORY_SEVERITY_PRICE_MATRIX, keyed by the case-folded text of its keys
CATEGORY_SEVERITY_PRICE_MATRIX ==
    [c \in CategorySet |->
        CASE c = "plumbing"      -> [minor |-> 150, moderate |-> 400,  major |-> 800,  critical |-> 1500]
          [] c = "electrical"    -> [minor |-> 200, moderate |-> 500,  major |-> 1200, critical |-> 2500]
          [] c = "hvac"          -> [minor |-> 150, moderate |-> 600,  major |-> 1500, critical |-> 3500]
          [] c = "roof"          -> [minor |-> 300, moderate |-> 800,  major |-> 2500, critical |-> 8000]
          [] c = "foundation"    -> [minor |-> 400, moderate |-> 1200, major |-> 3500, critical |-> 8000]
          [] c = "windows/doors" -> [minor |-> 150, moderate |-> 400,  major |-> 1000, critical |-> 2500]
          [] c = "attic"         -> [minor |-> 200, moderate |-> 500,  major |-> 1200, critical |-> 2500]
          [] c = "miscellaneous" -> [minor |-> 200, moderate |-> 500,  major |-> 1200, critical |-> 2500]]

\* `category in CATEGORY_SEVERITY_PRICE_MATRIX`: the keys are upper-case literals
InPriceMatrix(s) == s.cas = "upper" /\ ~s.pad /\ s.txt \in CategorySet

\* `severity in category_prices`: the keys are lower-case literals
InSeverityRow(s) == s.cas = "lower" /\ ~s.pad /\ s.txt \in Severities

\* get_base_price(category, severity)
get_base_price_unnormalized(category, severity) ==
    LET cat == IF InPriceMatrix(category) THEN category ELSE UpperLit("miscellaneous")
        sev == IF InSeverityRow(severity) THEN severity ELSE LowerLit("moderate")
    IN  CATEGORY_SEVERITY_PRICE_MATRIX[cat.txt][sev.txt]

get_base_price(category, severity) ==
    LET cat0 == Strip(Upper(category))
        sev0 == Strip(Lower(severity))
        cat == IF InPriceMatrix(cat0) THEN cat0 ELSE UpperLit("miscellaneous")
        sev == IF InSeverityRow(sev0) THEN sev0 ELSE LowerLit("moderate")
    IN  CATEGORY_SEVERITY_PRICE_MATRIX[cat.txt][sev.txt]

-----------------------------------------------------------------------------
(* Consolidation rules *)

\* CATEGORY_CONSOLIDATION_RULES[c]["max_per_item"], keyed by case-folded text
MaxPerItemTable ==
    [c \in CategorySet |->
        CASE c = "roof"          -> 8
          [] c = "electrical"    -> 5
          [] c = "plumbing"      -> 4
          [] c = "hvac"          -> 3
          [] c = "foundation"    -> 3
          [] c = "windows/doors" -> 4
          [] c = "attic"         -> 5
          [] c = "miscellaneous" -> 4]

\* CATEGORY_CONSOLIDATION_RULES.get(category, CATEGORY_CONSOLIDATION_RULES["MISCELLANEOUS"])["max_per_item"]
max_per_item(category) ==
    IF InPriceMatrix(category) THEN MaxPerItemTable[category.txt]
    ELSE MaxPerItemTable["miscellaneous"]

-----------------------------------------------------------------------------
(* Texts, issues and priced rows *)

\* A text: the vocabulary keywords occurring in it and its place in string order;
\* the empty string has no keywords and place 0.
Text(kw, ord) == [kw |-> kw, ord |-> ord]
EmptyText == Text({}, 0)
\* f"{a} {b}" and other concatenations that start with a
Joined(a, b) == Text(a.kw \cup b.kw, IF a.ord > 0 THEN a.ord ELSE Max(b.ord, 1))

NoStr == Str("", "upper", FALSE)
MISC == UpperLit("miscellaneous")

\* an issue as main() normalizes it (lines 2564-2573); it has no "priority" key
NoIssue ==
    [keys |-> {}, section |-> EmptyText, suggested_category |-> NoStr, title |-> EmptyText,
     description |-> EmptyText, severity |-> NoStr, location |-> EmptyText]

\* a priced row / line item; absent keys hold a placeholder and are not in `keys`
NoItem ==
    [keys |-> {}, category |-> NoStr, description |-> EmptyText, qty |-> 0,
     unit_price_usd |-> 0, line_total_usd |-> 0, notes |-> EmptyText, priority |-> "",
     bundled_issues |-> 0, discount_applied |-> 0, discount_justification |-> "",
     disclaimer |-> "", original_issue_id |-> -1, original_issue |-> NoIssue,
     original_items |-> <<>>, consolidated_issue_count |-> 0]

\* item[k] = v
SetKey(item, k, v) == [item EXCEPT ![k] = v, !.keys = @ \cup {k}]

ItemCategory(item) == Get(item, "category", MISC)

-----------------------------------------------------------------------------
(* create_consolidated_line_item and its helpers *)

\* _create_meaningful_description(items, category)
TitleOf(item) ==
    IF "original_issue" \in item.keys
    THEN Get(item.original_issue, "title", EmptyText)
    ELSE Get(item, "description", EmptyText)

RECURSIVE Themes(_, _)
Themes(its, n) ==
    IF its = <<>> \/ n = 0 THEN <<>>
    ELSE IF TitleOf(Head(its)) = EmptyText THEN Themes(Tail(its), n)
    ELSE <<TitleOf(Head(its))>> \o Themes(Tail(its), n - 1)

RECURSIVE JoinAll(_)
JoinAll(ts) == IF ts = <<>> THEN EmptyText ELSE Joined(Head(ts), JoinAll(Tail(ts)))

CategoryRepairs == Text({}, 1)

create_meaningful_description(its, category) ==
    IF Len(its) = 1
    THEN LET item == its[1]
             title == IF "original_issue" \in item.keys
                      THEN Get(item.original_issue, "title", EmptyText) ELSE EmptyText
         IN  IF title # EmptyText THEN title ELSE Get(item, "description", CategoryRepairs)
    ELSE LET themes == Themes(its, 3)
         IN  IF themes # <<>> THEN JoinAll(themes) ELSE CategoryRepairs

\* _create_detailed_notes_from_items(items)
DetailText(item) ==
    LET original == item.original_issue
        title == Get(original, "title", EmptyText)
        desc == Get(original, "description", EmptyText)
        location == Get(original, "location", EmptyText)
        d1 == IF "original_issue" \in item.keys
              THEN IF title # EmptyText
                   THEN IF location # EmptyText /\ ~(location.kw \subseteq title.kw /\ location.kw # {})
                        THEN Joined(title, location) ELSE title
                   ELSE desc
              ELSE EmptyText
        d2 == IF d1 = EmptyText THEN Get(item, "description", EmptyText) ELSE d1
    IN  IF d2 = EmptyText THEN Get(item, "notes", EmptyText) ELSE d2

RECURSIVE Details(_)
Details(its) ==
    IF its = <<>> THEN <<>>
    ELSE (IF DetailText(Head(its)) # EmptyText THEN <<DetailText(Head(its))>> ELSE <<>>)
         \o Details(Tail(its))

create_detailed_notes_from_items(its) ==
    IF Len(its) = 1
    THEN LET item == its[1]
             title == Get(item.original_issue, "title", EmptyText)
             desc == Get(item.original_issue, "description", EmptyText)
         IN  IF "original_issue" \in item.keys /\ title # EmptyText /\ title # desc THEN title
             ELSE IF "original_issue" \in item.keys /\ desc # EmptyText THEN desc
             ELSE Get(item, "description", Get(item, "notes", EmptyText))
    ELSE IF Details(its) = <<>> THEN Text({}, 1)
    ELSE Text(JoinAll(Details(its)).kw, 1)

\* the key when the list of priorities holds no CRITICAL
PriorityIndex_without_critical(p) ==
    CASE p = "HIGH"     -> 1
      [] p = "MEDIUM"   -> 2
      [] p = "LOW"      -> 3
      [] OTHER          -> 2

\* priorities.index(p) if p in priorities else 2
PriorityIndex(p) ==
    CASE p = "CRITICAL" -> 0
      [] p = "HIGH"     -> 1
      [] p = "MEDIUM"   -> 2
      [] p = "LOW"      -> 3
      [] OTHER          -> 2

\* min(item_priorities, key=...): the first element with the least key
RECURSIVE MinPriority(_)
MinPriority(ps) ==
    IF Len(ps) = 1 THEN ps[1]
    ELSE LET rest == MinPriority(Tail(ps))
         IN  IF PriorityIndex(Head(ps)) <= PriorityIndex(rest) THEN Head(ps) ELSE rest

\* the bundling discount in percent (lines 1587-1591)
discount_pct_flat(n) == IF n >= 2 THEN 5 ELSE 0

discount_pct(n) == IF n >= 3 THEN 10 ELSE IF n = 2 THEN 5 ELSE 0

\* round(total_price * (1 - discount_pct / 100) / 25) * 25
discounted_price(total_price, pct) ==
    RoundHalfEven(total_price * (100 - pct), 2500) * 25

\* create_consolidated_line_item(items, category, bundle_num)
create_consolidated_line_item(its, category, bundle_num) ==
    LET total_price == SumSeq([i \in DOMAIN its |-> Get(its[i], "unit_price_usd", 0)])
        pct == discount_pct(Len(its))
        price == discounted_price(total_price, pct)
    IN  [keys |-> {"category", "description", "qty", "unit_price_usd", "line_total_usd",
                   "notes", "priority", "bundled_issues", "discount_applied",
                   "discount_justification", "original_items"},
         category |-> category,
         description |-> create_meaningful_description(its, category),
         qty |-> 1,
         unit_price_usd |-> price,
         line_total_usd |-> price,
         notes |-> create_detailed_notes_from_items(its),
         priority |-> MinPriority([i \in DOMAIN its |-> Get(its[i], "priority", "MEDIUM")]),
         bundled_issues |-> Len(its),
         discount_applied |-> pct,
         discount_justification |-> IF pct > 0 THEN "bundled for efficiency" ELSE "No discount",
         disclaimer |-> "",
         original_issue_id |-> -1,
         original_issue |-> NoIssue,
         original_items |-> its]

-----------------------------------------------------------------------------
(* code_based_consolidation *)

\* the keys of by_category in insertion order (a dict keeps first-insertion order)
RECURSIVE CategoryOrder(_, _)
CategoryOrder(its, seen) ==
    IF its = <<>> THEN <<>>
    ELSE LET c == ItemCategory(Head(its))
         IN  IF c \in seen THEN CategoryOrder(Tail(its), seen)
             ELSE <<c>> \o CategoryOrder(Tail(its), seen \cup {c})

\* by_category[c] when a group is kept newest first
OfCategory_newest_first(its, c) ==
    LET group == SelectSeq(its, LAMBDA it : ItemCategory(it) = c)
    IN  [i \in DOMAIN group |-> group[Len(group) + 1 - i]]

\* by_category[c]
OfCategory(its, c) == SelectSeq(its, LAMBDA it : ItemCategory(it) = c)

\* the greedy loop of lines 1395-1425 over cat_items[k..], with the open bundle
RECURSIVE GreedyBundles(_, _, _, _, _, _)
GreedyBundles(cat_items, k, category, current_bundle, current_count, bundle_num) ==
    IF k > Len(cat_items)
    THEN IF current_bundle # <<>>
         THEN <<create_consolidated_line_item(current_bundle, category, bundle_num)>>
         ELSE <<>>
    ELSE LET item == cat_items[k]
             item_count == Get(item, "bundled_issues", 1)
         IN  IF current_count + item_count > max_per_item(category) /\ current_bundle # <<>>
             THEN <<create_consolidated_line_item(current_bundle, category, bundle_num)>>
                  \o GreedyBundles(cat_items, k + 1, category, <<item>>, item_count, bundle_num + 1)
             ELSE GreedyBundles(cat_items, k + 1, category, Append(current_bundle, item),
                                current_count + item_count, bundle_num)

ConsolidateCategory_no_limit(cat_items, category) ==
    IF Len(cat_items) = 1 THEN <<cat_items[1]>>
    ELSE <<create_consolidated_line_item(cat_items, category, 1)>>

ConsolidateCategory(cat_items, category) ==
    IF Len(cat_items) = 1 THEN <<cat_items[1]>>
    ELSE GreedyBundles(cat_items, 1, category, <<>>, 0, 1)

code_based_consolidation(priced_items) ==
    LET order == CategoryOrder(priced_items, {})
    IN  Concat([i \in DOMAIN order |-> ConsolidateCategory(OfCategory(priced_items, order[i]), order[i])])

-----------------------------------------------------------------------------
(* enforce_consolidation_limits.  Its items come from the batch pricing path *)
(* (call_gemini_for_pricing): bundled_issues is whatever the answer held.    *)

RECURSIVE GCD(_, _)
GCD(a, b) == IF b = 0 THEN a ELSE GCD(b, a % b)

\* an exact quotient num / den (Python divides prices as floats)
Frac(num, den) ==
    LET g == GCD(num, den)
    IN  IF num = 0 THEN [num |-> 0, den |-> 1] ELSE [num |-> num \div g, den |-> den \div g]

\* a value of item["bundled_issues"]: a list of issues, an int count, or something else
BIList(list) == [kind |-> "list", n |-> 0, list |-> list]
BIInt(n) == [kind |-> "int", n |-> n, list |-> <<>>]
BIOther == [kind |-> "other", n |-> 0, list |-> <<>>]

\* an item of the batch path; description is the text with its " - Part i of n" suffix,
\* notes the text or the auto-split note
NoBatchItem ==
    [keys |-> {}, category |-> NoStr,
     description |-> [text |-> EmptyText, part |-> 0, of |-> 0],
     bundled_issues |-> BIList(<<>>),
     base_price |-> Frac(0, 1), final_price |-> Frac(0, 1), line_total_usd |-> Frac(0, 1),
     unit_price_usd |-> 0, discount_applied |-> 0, discount_justification |-> "",
     priority |-> "", notes |-> [auto |-> FALSE, issue_count |-> 0, max |-> 0, text |-> EmptyText]]

\* the number of issues an item stands for, as enforce_consolidation_limits counts it
IssueCount(item) ==
    LET b == Get(item, "bundled_issues", BIList(<<>>))
    IN  IF b.kind = "int" THEN b.n ELSE Len(b.list)

\* lines 1670-1681: part i (0-based) of num_splits
SplitItem(item, category, split_issues, i, num_splits, issue_count, cap) ==
    [NoBatchItem EXCEPT
        !.keys = {"category", "description", "bundled_issues", "base_price", "discount_applied",
                  "discount_justification", "final_price", "line_total_usd", "priority", "notes"},
        !.category = category,
        !.description = [text |-> Get(item, "description", NoBatchItem.description).text,
                         part |-> i + 1, of |-> num_splits],
        !.bundled_issues = BIList(split_issues),
        !.base_price = LET b == Get(item, "base_price", Frac(0, 1))
                       IN  Frac(b.num, b.den * num_splits),
        !.discount_applied = Get(item, "discount_applied", 0),
        !.discount_justification = Get(item, "discount_justification", ""),
        !.final_price = LET b == Get(item, "final_price", Frac(0, 1))
                        IN  Frac(b.num, b.den * num_splits),
        !.line_total_usd = LET b == Get(item, "line_total_usd", Frac(0, 1))
                           IN  Frac(b.num, b.den * num_splits),
        !.priority = Get(item, "priority", "MEDIUM"),
        !.notes = [auto |-> TRUE, issue_count |-> issue_count, max |-> cap, text |-> EmptyText]]

\* lines 1658-1659
NumSplits(issue_count, cap) == Ceil(issue_count, cap)

IssuesPerSplit_by_cap_plus_one(issue_count, cap) == cap + 1

IssuesPerSplit(issue_count, cap) == Ceil(issue_count, NumSplits(issue_count, cap))

\* lines 1661-1683: the parts from part i (0-based) on
RECURSIVE SplitFrom(_, _, _, _, _, _)
SplitFrom(item, category, bundled_issues, i, num_splits, cap) ==
    IF i >= num_splits THEN <<>>
    ELSE LET issue_count == Len(bundled_issues)
             issues_per_split == IssuesPerSplit(issue_count, cap)
             start_idx == i * issues_per_split
             end_idx == Min((i + 1) * issues_per_split, issue_count)
             split_issues == SubSeq(bundled_issues, start_idx + 1, end_idx)
         IN  (IF split_issues = <<>> THEN <<>>
              ELSE <<SplitItem(item, category, split_issues, i, num_splits, issue_count, cap)>>)
             \o SplitFrom(item, category, bundled_issues, i + 1, num_splits, cap)

\* lines 1634-1690: what one item becomes
EnforceItem_first_part_only(item) ==
    LET category == Get(item, "category", MISC)
        b == Get(item, "bundled_issues", BIList(<<>>))
        issue_count == IssueCount(item)
        cap == max_per_item(category)
    IN  IF b.kind = "other" THEN <<item>>
        ELSE IF issue_count > cap /\ b.kind = "list" /\ b.list # <<>>
        THEN SplitFrom(item, category, b.list, 0, 1, cap)
        ELSE <<item>>

EnforceItem(item) ==
    LET category == Get(item, "category", MISC)
        b == Get(item, "bundled_issues", BIList(<<>>))
        issue_count == IssueCount(item)
        cap == max_per_item(category)
    IN  IF b.kind = "other" THEN <<item>>
        ELSE IF issue_count > cap /\ b.kind = "list" /\ b.list # <<>>
        THEN SplitFrom(item, category, b.list, 0, NumSplits(issue_count, cap), cap)
        ELSE <<item>>

enforce_consolidation_limits(its) == Concat([i \in DOMAIN its |-> EnforceItem(its[i])])

-----------------------------------------------------------------------------
(* Phase 1: call_gemini_for_individual_pricing *)

\* severity_prices.get(severity, severity_prices.get("moderate", 200)) of create_fallback_pricing:
\* the category is looked up as given, the severity is lower-cased but not stripped
FallbackBase(issue) ==
    LET category == Get(issue, "suggested_category", MISC)
        severity == Lower(Get(issue, "severity", LowerLit("moderate")))
        row == CATEGORY_SEVERITY_PRICE_MATRIX[IF InPriceMatrix(category) THEN category.txt
                                              ELSE "miscellaneous"]
    IN  IF InSeverityRow(severity) THEN row[severity.txt] ELSE row["moderate"]

\* round(base_price * random.uniform(0.9, 1.1) / 25) * 25: every value the draw can give
FallbackPrices(issue) ==
    {25 * k : k \in RoundHalfEven(9 * FallbackBase(issue), 250) ..
                    RoundHalfEven(11 * FallbackBase(issue), 250)}

FallbackNotes == Text({}, 1)

\* create_fallback_pricing(issue), with the price the random draw gave
create_fallback_pricing(issue, price) ==
    [NoItem EXCEPT
        !.keys = {"category", "description", "qty", "unit_price_usd", "line_total_usd",
                  "notes", "priority", "bundled_issues", "discount_applied",
                  "discount_justification"},
        !.category = Get(issue, "suggested_category", MISC),
        !.description = Get(issue, "description", Text({}, 1)),
        !.qty = 1,
        !.unit_price_usd = price,
        !.line_total_usd = price,
        !.notes = FallbackNotes,
        !.priority = Get(issue, "priority", "MEDIUM"),
        !.bundled_issues = 1,
        !.discount_applied = 0,
        !.discount_justification = "No discount"]

\* What one oracle call can do: fail in transit, answer nothing (extract_text raises),
\* answer text that is no JSON, answer JSON that is no object, or answer an object.
FailureKinds == {"transport", "empty", "malformed", "nonobject"}

\* lines 1778-1780: the fields Phase 1 stamps on a parsed or inner-fallback row
Stamp_keeping_count(item, idx, issue) ==
    SetKey(SetKey(item, "original_issue_id", idx - 1), "original_issue", issue)

Stamp(item, idx, issue) ==
    SetKey(SetKey(SetKey(item, "bundled_issues", 1), "original_issue_id", idx - 1),
           "original_issue", issue)

\* lines 1788-1789: the fields stamped in the outer except branch
StampFallback(item, idx, issue) ==
    SetKey(SetKey(item, "original_issue_id", idx - 1), "original_issue", issue)

\* The row Phase 1 appends for issue number idx (1-based) given the call's outcome.
\* outcome.kind "object": outcome.item is the parsed answer.  "malformed": json.loads
\* raises JSONDecodeError, caught inside.  "transport", "empty", "nonobject": an
\* exception reaches the outer except (a non-object answer fails at item[...] = 1).
\* outcome.price is the fallback draw.
\* The result says whether an exception left the loop body, and the rows appended.
PriceOneIssue_uncaught_type_error(issue, idx, outcome) ==
    IF outcome.kind = "object"
    THEN [raised |-> FALSE, rows |-> <<Stamp(outcome.item, idx, issue)>>]
    ELSE IF outcome.kind = "malformed"
    THEN [raised |-> FALSE,
          rows |-> <<Stamp(create_fallback_pricing(issue, outcome.price), idx, issue)>>]
    ELSE IF outcome.kind = "nonobject"
    THEN [raised |-> TRUE, rows |-> <<>>]
    ELSE [raised |-> FALSE,
          rows |-> <<StampFallback(create_fallback_pricing(issue, outcome.price), idx, issue)>>]

PriceOneIssue(issue, idx, outcome) ==
    IF outcome.kind = "object"
    THEN [raised |-> FALSE, rows |-> <<Stamp(outcome.item, idx, issue)>>]
    ELSE IF outcome.kind = "malformed"
    THEN [raised |-> FALSE,
          rows |-> <<Stamp(create_fallback_pricing(issue, outcome.price), idx, issue)>>]
    ELSE [raised |-> FALSE,
          rows |-> <<StampFallback(create_fallback_pricing(issue, outcome.price), idx, issue)>>]

\* how the row was obtained
RowOrigin(outcome) == IF outcome.kind = "object" THEN "oracle" ELSE "fallback"

\* prompt_version of call_gemini_for_individual_pricing
prompt_version == "v7.0-individual-pricing"

\* cache_key: sha256 of the sorted-keys JSON of the issue list plus the prompt version,
\* modelled as the pair it is computed from (no two inputs share a key)
CacheKey(issues, version) == [issues |-> issues, version |-> version]

\* json.dump({"items": priced_items, "tokens": total_tokens}) and json.load of it:
\* the file holds the rows in order; a file opened for writing and not yet written
\* holds no complete JSON document
JsonDump(priced_items, tokens) == [complete |-> TRUE, items |-> priced_items, tokens |-> tokens]
PartialFile == [complete |-> FALSE, items |-> <<>>, tokens |-> 0]
JsonLoadItems_dropping_last(file) == SubSeq(file.items, 1, Len(file.items) - 1)
JsonLoadItems(file) == file.items

-----------------------------------------------------------------------------
(* Phase 1 as processes: runs of call_gemini_for_individual_pricing sharing *)
(* the cache directory                                                      *)

Runs == {"r1", "r2"}

P1MaxIssues == 2

\* normalized issues the runs are given
IssueA ==
    [NoIssue EXCEPT
        !.keys = {"section", "suggested_category", "title", "description", "severity", "location"},
        !.section = Text({"plumbing"}, 3), !.suggested_category = UpperLit("plumbing"),
        !.title = Text({"active leak", "bathroom", "bath"}, 1),
        !.description = Text({"active leak"}, 1), !.severity = LowerLit("minor"),
        !.location = Text({"bathroom", "bath"}, 2)]

IssueB ==
    [NoIssue EXCEPT
        !.keys = {"section", "suggested_category", "title", "description", "severity", "location"},
        !.section = Text({"door"}, 2), !.suggested_category = UpperLit("windows/doors"),
        !.title = Text({"worn", "knob", "door"}, 4),
        !.description = Text({"worn"}, 4), !.severity = Str("minor", "mixed", FALSE),
        !.location = EmptyText]

P1IssueTypes == {IssueA, IssueB}

P1IssueLists == UNION {[1..n -> P1IssueTypes] : n \in 1..P1MaxIssues}

\* JSON objects the oracle may answer for an issue
OracleFull(issue, price) ==
    [NoItem EXCEPT
        !.keys = {"category", "description", "qty", "unit_price_usd", "line_total_usd",
                  "notes", "priority", "bundled_issues"},
        !.category = Get(issue, "suggested_category", MISC),
        !.description = Get(issue, "description", EmptyText),
        !.qty = 1, !.unit_price_usd = price, !.line_total_usd = price,
        !.notes = Text({}, 1), !.priority = "MEDIUM", !.bundled_issues = 1]

\* an answer that claims three bundled issues, and one with no category, price or priority
OracleOdd(issue) == [OracleFull(issue, 150) EXCEPT !.bundled_issues = 3, !.priority = "HIGH"]

\* an answer that prices two units of the same repair
OraclePair(issue) == [OracleFull(issue, 100) EXCEPT !.qty = 2, !.line_total_usd = 200]

OracleSparse(issue) ==
    [OracleFull(issue, 0) EXCEPT !.keys = {"description", "notes"},
                                 !.category = NoStr, !.qty = 0, !.priority = "",
                                 !.bundled_issues = 0]

OracleObjects(issue) == {OracleFull(issue, 450), OracleOdd(issue), OracleSparse(issue)}

Outcomes(issue) ==
    {[kind |-> k, item |-> NoItem, price |-> p] : k \in FailureKinds, p \in FallbackPrices(issue)}
    \cup {[kind |-> "object", item |-> o, price |-> 0] : o \in OracleObjects(issue)}

NoFile == <<>>

\* the variables of the other specifications stay at these values
FnIdle == fn = "none" /\ arg = <<>> /\ ret = <<>>

P1Idle ==
    /\ pc = [r \in Runs |-> "off"]
    /\ p1_issues = [r \in Runs |-> <<>>]
    /\ p1_idx = [r \in Runs |-> 0]
    /\ p1_items = [r \in Runs |-> <<>>]
    /\ p1_ret = [r \in Runs |-> <<>>]
    /\ p1_calls = [r \in Runs |-> 0]
    /\ p1_log = [r \in Runs |-> <<>>]
    /\ p1_after = [r \in Runs |-> {}]
    /\ cache = NoFile

MainIdle ==
    /\ mpc = "off"
    /\ margs = <<>>
    /\ findings = <<>>
    /\ normalized_issues = <<>>
    /\ items = <<>>
    /\ diag = <<>>
    /\ estimate = <<>>
    /\ io = <<>>

InitP1 ==
    /\ FnIdle
    /\ MainIdle
    /\ pc = [r \in Runs |-> "idle"]
    /\ p1_issues = [r \in Runs |-> <<>>]
    /\ p1_idx = [r \in Runs |-> 0]
    /\ p1_items = [r \in Runs |-> <<>>]
    /\ p1_ret = [r \in Runs |-> <<>>]
    /\ p1_calls = [r \in Runs |-> 0]
    /\ p1_log = [r \in Runs |-> <<>>]
    /\ p1_after = [r \in Runs |-> {}]
    /\ cache = NoFile

\* a run is called with an issue list
P1Start(r) ==
    /\ pc[r] = "idle"
    /\ \E L \in P1IssueLists :
          /\ p1_issues' = [p1_issues EXCEPT ![r] = L]
          /\ p1_after' = [p1_after EXCEPT ![r] = {q \in Runs : pc[q] = "done" /\ p1_issues[q] = L}]
    /\ pc' = [pc EXCEPT ![r] = "check"]
    /\ UNCHANGED <<p1_idx, p1_items, p1_ret, p1_calls, p1_log, cache, fnVars, mainVars>>

\* lines 1712-1726: cache lookup; a hit returns the stored rows, and json.load of a
\* file that another run has opened for writing but not written raises
P1CheckCache(r) ==
    /\ pc[r] = "check"
    /\ LET key == CacheKey(p1_issues[r], prompt_version)
       IN  IF key \in DOMAIN cache
           THEN IF cache[key].complete
                THEN /\ p1_ret' = [p1_ret EXCEPT ![r] = JsonLoadItems(cache[key])]
                     /\ pc' = [pc EXCEPT ![r] = "done"]
                ELSE /\ pc' = [pc EXCEPT ![r] = "raised"]
                     /\ UNCHANGED p1_ret
           ELSE /\ pc' = [pc EXCEPT ![r] = "pricing"]
                /\ UNCHANGED p1_ret
    /\ UNCHANGED <<p1_issues, p1_idx, p1_items, p1_calls, p1_log, p1_after, cache, fnVars, mainVars>>

\* lines 1734-1790: one iteration of the pricing loop
P1PriceIssue(r) ==
    /\ pc[r] = "pricing"
    /\ p1_idx[r] < Len(p1_issues[r])
    /\ LET idx == p1_idx[r] + 1
           issue == p1_issues[r][idx]
       IN  \E outcome \in Outcomes(issue) :
              LET res == PriceOneIssue(issue, idx, outcome)
              IN  /\ p1_items' = [p1_items EXCEPT ![r] = @ \o res.rows]
                  /\ p1_log' = [p1_log EXCEPT ![r] = Append(@, RowOrigin(outcome))]
                  /\ pc' = [pc EXCEPT ![r] = IF res.raised THEN "raised" ELSE @]
    /\ p1_idx' = [p1_idx EXCEPT ![r] = @ + 1]
    /\ p1_calls' = [p1_calls EXCEPT ![r] = @ + 1]
    /\ UNCHANGED <<p1_issues, p1_ret, p1_after, cache, fnVars, mainVars>>

\* lines 1795-1796: open(cache_path, 'w') creates or truncates the file
P1OpenCache(r) ==
    /\ pc[r] = "pricing"
    /\ p1_idx[r] = Len(p1_issues[r])
    /\ cache' = (CacheKey(p1_issues[r], prompt_version) :> PartialFile) @@ cache
    /\ pc' = [pc EXCEPT ![r] = "writing"]
    /\ UNCHANGED <<p1_issues, p1_idx, p1_items, p1_ret, p1_calls, p1_log, p1_after, fnVars, mainVars>>

\* lines 1797-1799: json.dump, close, return
P1DumpCache(r) ==
    /\ pc[r] = "writing"
    /\ cache' = (CacheKey(p1_issues[r], prompt_version) :> JsonDump(p1_items[r], 0)) @@ cache
    /\ p1_ret' = [p1_ret EXCEPT ![r] = p1_items[r]]
    /\ pc' = [pc EXCEPT ![r] = "done"]
    /\ UNCHANGED <<p1_issues, p1_idx, p1_items, p1_calls, p1_log, p1_after, fnVars, mainVars>>

NextP1 ==
    \E r \in Runs :
        \/ P1Start(r)
        \/ P1CheckCache(r)
        \/ P1PriceIssue(r)
        \/ P1OpenCache(r)
        \/ P1DumpCache(r)

SpecP1 == InitP1 /\ [][NextP1]_vars

-----------------------------------------------------------------------------
(* The pure functions, each applied to inputs drawn at the start *)

\* strings handed to get_base_price
RawStrings(texts) == {Str(t, c, pd) : t \in texts, c \in {"upper", "lower", "mixed"}, pd \in BOOLEAN}

GbpInputs == {<<c, sv>> : c \in RawStrings(CategorySet \cup {"unknown_cat"}),
                          sv \in RawStrings(Severities \cup {"deficient"})}

\* items handed to enforce_consolidation_limits
MaxBundle == 9
MaxEnfItems == 2

BatchItem(category, hasCategory, b, hasB, price) ==
    [NoBatchItem EXCEPT
        !.keys = {"description", "priority", "notes", "unit_price_usd"}
                 \cup (IF hasCategory THEN {"category"} ELSE {})
                 \cup (IF hasB THEN {"bundled_issues"} ELSE {})
                 \cup (IF price > 0 THEN {"line_total_usd", "final_price"} ELSE {}),
        !.category = category,
        !.description = [text |-> Text({}, 1), part |-> 0, of |-> 0],
        !.bundled_issues = b,
        !.final_price = Frac(price, 1),
        !.line_total_usd = Frac(price, 1),
        !.unit_price_usd = price,
        !.priority = "HIGH",
        !.notes = [auto |-> FALSE, issue_count |-> 0, max |-> 0, text |-> Text({}, 1)]]

BatchItems ==
    {BatchItem(c, TRUE, b, TRUE, IF b.kind = "list" THEN 100 ELSE 0) :
        c \in {UpperLit("hvac"), UpperLit("roof"), Str("roof", "lower", FALSE)},
        b \in {BIList([k \in 1..n |-> k]) : n \in 0..MaxBundle}
              \cup {BIInt(n) : n \in {1, MaxBundle}} \cup {BIOther}}
    \cup {BatchItem(NoStr, FALSE, BIList([k \in 1..n |-> k]), TRUE, 100) : n \in 0..MaxBundle}
    \cup {BatchItem(UpperLit("hvac"), TRUE, BIList(<<>>), FALSE, 100)}

EnfInputs == UNION {[1..n -> BatchItems] : n \in 0..MaxEnfItems}

\* Phase-1 rows handed to code_based_consolidation and create_consolidated_line_item
IssueOf(category) ==
    [IssueA EXCEPT !.suggested_category = category, !.section = Text({}, 1)]

\* the row Phase 1 makes of issue idx when the oracle answers the given category and price
\* (category NoStr: the answer has no category; price 0: it has no price)
OracleRow(category, price, idx) ==
    LET answer == [OracleFull(IssueOf(category), price) EXCEPT
                      !.keys = @ \ ((IF category = NoStr THEN {"category"} ELSE {})
                                    \cup (IF price = 0 THEN {"unit_price_usd", "line_total_usd"} ELSE {}))]
    IN  PriceOneIssue(IssueOf(category), idx, [kind |-> "object", item |-> answer, price |-> 0]).rows[1]

MaxCbcRows == 5
MaxRoofRows == 28

CbcCategories == {UpperLit("hvac"), UpperLit("miscellaneous"), Str("roof", "mixed", FALSE), NoStr}

CbcInputs ==
    {[i \in 1..Len(cs) |-> OracleRow(cs[i], 100 + 25 * i, i)] :
        cs \in UNION {[1..n -> CbcCategories] : n \in 0..MaxCbcRows}}
    \cup {[i \in 1..n |-> OracleRow(UpperLit("roof"), 300, i)] : n \in 1..MaxRoofRows}

MaxMembers == 4

MemberPrices == {0, 125, 150, 400}

\* the priorities of members ("" : the row has no priority)
MemberPriorities == {"CRITICAL", "HIGH", "MEDIUM", "LOW", ""}

PriorityRow(priority, idx) ==
    LET row == OracleRow(UpperLit("plumbing"), 125, idx)
    IN  [row EXCEPT !.priority = priority,
                    !.keys = IF priority = "" THEN @ \ {"priority"} ELSE @]

\* members of every price, members the first of which stands for three issues, and
\* members of every priority
CcliInputs ==
    {[i \in 1..Len(ps) |-> OracleRow(UpperLit("plumbing"), ps[i], i)] :
        ps \in UNION {[1..n -> MemberPrices] : n \in 1..MaxMembers}}
    \cup {[i \in 1..n |-> [OracleRow(UpperLit("plumbing"), 125, i) EXCEPT
                               !.bundled_issues = IF i = 1 THEN 3 ELSE 1]] : n \in 1..MaxMembers}
    \cup {[i \in 1..Len(ps) |-> PriorityRow(ps[i], i)] :
            ps \in UNION {[1..n -> MemberPriorities] : n \in 1..MaxMembers}}

\* test_pricing_matrix: its (category, severity, expected) cases
test_cases ==
    << [category |-> UpperLit("roof"),          severity |-> LowerLit("major"),    expected |-> 2500],
       [category |-> UpperLit("plumbing"),      severity |-> LowerLit("minor"),    expected |-> 150],
       [category |-> UpperLit("electrical"),    severity |-> LowerLit("critical"), expected |-> 2500],
       [category |-> UpperLit("hvac"),          severity |-> LowerLit("moderate"), expected |-> 600],
       [category |-> UpperLit("unknown"),       severity |-> LowerLit("moderate"), expected |-> 250],
       [category |-> UpperLit("foundation"),    severity |-> LowerLit("critical"), expected |-> 8000],
       [category |-> UpperLit("attic"),         severity |-> LowerLit("minor"),    expected |-> 200],
       [category |-> UpperLit("windows/doors"), severity |-> LowerLit("major"),    expected |-> 1000] >>

\* the cases whose result differs from the expected price
FailedCases ==
    {i \in DOMAIN test_cases :
        get_base_price(test_cases[i].category, test_cases[i].severity) # test_cases[i].expected}

\* test_pricing_matrix(): all_passed
test_pricing_matrix == FailedCases = {}

InitFn ==
    /\ P1Idle
    /\ MainIdle
    /\ ret = <<>>
    /\ \/ fn = "get_base_price" /\ arg \in GbpInputs
       \/ fn = "enforce_consolidation_limits" /\ arg \in EnfInputs
       \/ fn = "code_based_consolidation" /\ arg \in CbcInputs
       \/ fn = "create_consolidated_line_item" /\ arg \in CcliInputs
       \/ fn = "test_pricing_matrix" /\ arg = <<>>

Call_get_base_price ==
    /\ fn = "get_base_price"
    /\ ret = <<>>
    /\ ret' = <<get_base_price(arg[1], arg[2])>>
    /\ UNCHANGED <<fn, arg, p1Vars, mainVars>>

Call_enforce_consolidation_limits ==
    /\ fn = "enforce_consolidation_limits"
    /\ ret = <<>>
    /\ ret' = <<enforce_consolidation_limits(arg)>>
    /\ UNCHANGED <<fn, arg, p1Vars, mainVars>>

\* the splitter run again on its own output
Call_enforce_consolidation_limits_again ==
    /\ fn = "enforce_consolidation_limits"
    /\ Len(ret) = 1
    /\ ret' = Append(ret, enforce_consolidation_limits(ret[1]))
    /\ UNCHANGED <<fn, arg, p1Vars, mainVars>>

Call_code_based_consolidation ==
    /\ fn = "code_based_consolidation"
    /\ ret = <<>>
    /\ ret' = <<code_based_consolidation(arg)>>
    /\ UNCHANGED <<fn, arg, p1Vars, mainVars>>

Call_create_consolidated_line_item ==
    /\ fn = "create_consolidated_line_item"
    /\ ret = <<>>
    /\ ret' = <<create_consolidated_line_item(arg, UpperLit("plumbing"), 1)>>
    /\ UNCHANGED <<fn, arg, p1Vars, mainVars>>

Call_test_pricing_matrix ==
    /\ fn = "test_pricing_matrix"
    /\ ret = <<>>
    /\ ret' = <<test_pricing_matrix>>
    /\ UNCHANGED <<fn, arg, p1Vars, mainVars>>

NextFn ==
    \/ Call_get_base_price
    \/ Call_test_pricing_matrix
    \/ Call_enforce_consolidation_limits
    \/ Call_enforce_consolidation_limits_again
    \/ Call_code_based_consolidation
    \/ Call_create_consolidated_line_item

SpecFn == InitFn /\ [][NextFn]_vars

-----------------------------------------------------------------------------
(* main(): the estimate pipeline, and the functions only it calls *)

\* an issue of the findings file
NoFinding ==
    [keys |-> {}, section |-> EmptyText, component |-> EmptyText, title |-> EmptyText,
     description |-> EmptyText, notes |-> EmptyText, severity |-> NoStr, priority |-> "",
     priority_reason |-> "", location |-> EmptyText]

\* `keyword in text` for some keyword of the set (texts hold lower-cased keywords)
Has(text, keywords) == text.kw \cap keywords # {}

\* fix_priority_classification
safety_keywords ==
    {"exposed wiring", "live wire", "electrical fire", "shock hazard", "short circuit",
     "electrical hazard", "damaged wire", "bare wire", "overloaded", "arcing", "sparking",
     "active leak", "water damage", "mold", "moisture intrusion", "wet", "water intrusion",
     "flooding", "water pooling", "ice dam", "moisture problem",
     "foundation crack", "wall damage", "floor settling", "compromised", "structural damage",
     "foundation problem", "crack", "subsidence", "bowing", "leaning", "separation",
     "gas leak", "carbon monoxide", "unsafe appliance", "gas odor", "ventilation problem",
     "blocked vent", "dangerous"}

maintenance_keywords ==
    {"worn knob", "worn handle", "worn hinge", "worn finish", "dirty filter",
     "low refrigerant", "low battery", "paint", "staining", "discoloration", "worn",
     "adjustment", "tightening", "caulking", "weatherstrip", "minor", "routine",
     "maintenance", "preventive", "replace filter", "inspection only"}

FixPriority(issue) ==
    LET description == Joined(Get(issue, "description", EmptyText), Get(issue, "notes", EmptyText))
        title == Get(issue, "title", EmptyText)
        full_text == Joined(title, description)
        is_safety == Has(full_text, safety_keywords)
        is_maintenance == Has(full_text, maintenance_keywords)
    IN  IF is_safety
        THEN SetKey(SetKey(issue, "priority", "HIGH"), "priority_reason", "safety")
        ELSE IF is_maintenance
        THEN SetKey(SetKey(issue, "priority", "LOW"), "priority_reason", "maintenance")
        ELSE SetKey(SetKey(issue, "priority", "MODERATE"), "priority_reason", "standard")

fix_priority_classification(issues) == [i \in DOMAIN issues |-> FixPriority(issues[i])]

\* map_extraction_category_to_pricing(section, component, title)
map_extraction_category_to_pricing(section, component, title) ==
    IF Has(section, {"foundation"}) \/ Has(component, {"foundation"})
    THEN UpperLit("foundation")
    ELSE IF Has(section, {"roof", "gutter", "flashing"}) \/ Has(component, {"roof"})
    THEN UpperLit("roof")
    ELSE IF Has(section, {"attic", "insulation"}) \/ Has(component, {"attic"})
    THEN UpperLit("attic")
    ELSE IF Has(section, {"plumbing", "water", "drain"}) \/ Has(component, {"plumbing"})
    THEN UpperLit("plumbing")
    ELSE IF Has(section, {"electrical", "outlet", "circuit", "panel"})
            \/ Has(component, {"electrical"})
    THEN UpperLit("electrical")
    ELSE IF Has(section, {"hvac", "heating", "cooling", "air condition", "furnace"})
            \/ Has(component, {"hvac"})
    THEN UpperLit("hvac")
    ELSE IF Has(section, {"window", "door"}) \/ Has(component, {"window", "door"})
    THEN UpperLit("windows/doors")
    ELSE IF Has(section, {"appliance", "dishwasher", "disposal", "range"})
            \/ Has(component, {"appliance"})
    THEN UpperLit("miscellaneous")
    ELSE IF Has(component, {"grading", "soil"})
    THEN UpperLit("foundation")
    ELSE IF Has(component, {"wood rot", "wood trim", "siding", "decks", "porches"})
    THEN UpperLit("miscellaneous")
    ELSE IF Has(section, {"structural"})
    THEN UpperLit("foundation")
    ELSE UpperLit("miscellaneous")

\* lines 2556-2573: the normalized issue; "priority" is not carried over
NormalizeIssue(issue) ==
    [NoIssue EXCEPT
        !.keys = {"section", "suggested_category", "title", "description", "severity", "location"},
        !.section = Get(issue, "section", EmptyText),
        !.suggested_category =
            map_extraction_category_to_pricing(Get(issue, "section", EmptyText),
                                               Get(issue, "component", EmptyText),
                                               Get(issue, "title", EmptyText)),
        !.title = Get(issue, "title", EmptyText),
        !.description = Get(issue, "description", EmptyText),
        !.severity = Get(issue, "severity", LowerLit("moderate")),
        !.location = Get(issue, "location", EmptyText)]

\* lines 2610-2628: the row of the --no-ai path (titles are at most 100 characters and
\* descriptions at most 200, so the slices keep them whole)
NoAiRow(issue) ==
    LET category == Get(issue, "suggested_category", MISC)
        base_price == get_base_price(category, Get(issue, "severity", LowerLit("moderate")))
    IN  [NoItem EXCEPT
            !.keys = {"category", "description", "qty", "unit_price_usd", "line_total_usd",
                      "notes", "disclaimer", "bundled_issues", "original_issue"},
            !.category = category,
            !.description = issue.title,
            !.qty = 1,
            !.unit_price_usd = base_price,
            !.line_total_usd = base_price,
            !.notes = issue.description,
            !.disclaimer = "standard rates",
            !.bundled_issues = 1,
            !.original_issue = issue]

\* stabilize_prices: PRICE_RANGES[tier] for the tier of the price
PriceRange(current_price) ==
    IF current_price <= 300 THEN [min |-> 75, max |-> 300]
    ELSE IF current_price <= 1000 THEN [min |-> 300, max |-> 1000]
    ELSE IF current_price <= 2500 THEN [min |-> 1000, max |-> 2500]
    ELSE [min |-> 2500, max |-> 5000]

StabilizeItem(item) ==
    LET current_price == Get(item, "unit_price_usd", 0)
        range == PriceRange(current_price)
        clamped == IF current_price < range.min THEN range.min
                   ELSE IF current_price > range.max THEN range.max
                   ELSE current_price
        unit == RoundHalfEven(clamped, 25) * 25
    IN  SetKey(SetKey(item, "unit_price_usd", unit), "line_total_usd", unit * Get(item, "qty", 1))

stabilize_prices(its) == [i \in DOMAIN its |-> StabilizeItem(its[i])]

\* TEXAS_REGIONAL_MULTIPLIERS.get(region, 1.00), in percent
TEXAS_REGIONAL_MULTIPLIERS(region) ==
    CASE region = "Dallas-Fort Worth" -> 105
      [] region = "Austin"            -> 110
      [] region = "Houston"           -> 100
      [] region = "San Antonio"       -> 95
      [] region = "El Paso"           -> 90
      [] region = "Corpus Christi"    -> 92
      [] region = "Lubbock"           -> 88
      [] region = "Amarillo"          -> 87
      [] region = "Rural Texas"       -> 85
      [] region = "Default"           -> 100
      [] OTHER                        -> 100

\* apply_regional_adjustment.  The float product rounds as the exact one does for every
\* multiplier but 1.10, whose half-way cases the runs below do not draw.
RegionalItem(item, multiplier) ==
    [item EXCEPT
        !.unit_price_usd = RoundHalfEven(@ * multiplier, 2500) * 25,
        !.line_total_usd = RoundHalfEven(@ * multiplier, 2500) * 25]

apply_regional_adjustment(its, region) ==
    LET multiplier == TEXAS_REGIONAL_MULTIPLIERS(region)
    IN  IF multiplier # 100 THEN [i \in DOMAIN its |-> RegionalItem(its[i], multiplier)]
        ELSE its

\* validate_consolidation_ratio(issues_count, items_count): min_ratio <= ratio <= max_ratio
validate_consolidation_ratio(issues_count, items_count) ==
    [issues_count |-> issues_count,
     items_count |-> items_count,
     is_valid |-> items_count # 0 /\ 3 * items_count <= issues_count
                  /\ issues_count <= 5 * items_count]

\* lines 2722-2728: the sort key (place in category_order or 999, then the description)
category_order == <<"foundation", "roof", "plumbing", "electrical", "hvac",
                    "windows/doors", "attic", "miscellaneous">>

CategoryRank(item) ==
    LET c == Get(item, "category", MISC)
    IN  IF "category" \in item.keys /\ InPriceMatrix(c)
        THEN CHOOSE i \in DOMAIN category_order : category_order[i] = c.txt
        ELSE 999

SortsBefore(a, b) ==
    \/ CategoryRank(a) < CategoryRank(b)
    \/ /\ CategoryRank(a) = CategoryRank(b)
       /\ Get(a, "description", EmptyText).ord < Get(b, "description", EmptyText).ord

\* sorted() is stable: an item's place is the number of items that sort before it plus
\* the number of earlier items that sort the same
SortedPlace(its, i) ==
    Cardinality({j \in DOMAIN its : \/ SortsBefore(its[j], its[i])
                                    \/ j <= i /\ ~SortsBefore(its[i], its[j])})

SortItems(its) ==
    [p \in DOMAIN its |-> its[CHOOSE i \in DOMAIN its : SortedPlace(its, i) = p]]

\* aggressive_consolidation: the bundling patterns; name holds the keywords occurring in
\* the lower-cased pattern name, discounts are in percent
patterns ==
    << [category |-> "plumbing",      keywords |-> {"bathroom", "bath"},
        name |-> {"plumb", "plumbing"}, discount |-> 18],
       [category |-> "plumbing",      keywords |-> {"water heater", "TPR"},
        name |-> {"water heater", "water", "heat"}, discount |-> 20],
       [category |-> "plumbing",      keywords |-> {"gas line", "drip leg"},
        name |-> {"gas line", "gas"}, discount |-> 15],
       [category |-> "electrical",    keywords |-> {"panel", "breaker"},
        name |-> {"electrical", "electric", "panel"}, discount |-> 18],
       [category |-> "electrical",    keywords |-> {"outlet", "switch"},
        name |-> {"circuit"}, discount |-> 20],
       [category |-> "electrical",    keywords |-> {"GFCI", "detector"},
        name |-> {}, discount |-> 20],
       [category |-> "hvac",          keywords |-> {"duct", "vent"},
        name |-> {"hvac", "ductwork", "duct"}, discount |-> 15],
       [category |-> "hvac",          keywords |-> {"coil", "refrigerant"},
        name |-> {"hvac"}, discount |-> 15],
       [category |-> "roof",          keywords |-> {"shingle", "flashing"},
        name |-> {"roof"}, discount |-> 15],
       [category |-> "foundation",    keywords |-> {"crack", "settlement"},
        name |-> {"foundation", "crack"}, discount |-> 15],
       [category |-> "windows/doors", keywords |-> {"door", "knob"},
        name |-> {"door", "adjustment"}, discount |-> 20],
       [category |-> "windows/doors", keywords |-> {"window", "screen"},
        name |-> {"window"}, discount |-> 20] >>

\* DISCLAIMER_TEMPLATES.get(category, default): the template is named by its key
DisclaimerFor(category, default) ==
    IF InPriceMatrix(category) THEN category.txt ELSE default

\* lines 1989-1996
PatternMatches(item, pattern) ==
    /\ "category" \in item.keys
    /\ item.category = UpperLit(pattern.category)
    /\ Has(Joined(Get(item, "description", EmptyText), Get(item, "notes", EmptyText)),
           pattern.keywords)

\* the items at the given places, in order
RECURSIVE AtPlaces(_, _, _)
AtPlaces(its, places, i) ==
    IF i > Len(its) THEN <<>>
    ELSE (IF i \in places THEN <<its[i]>> ELSE <<>>) \o AtPlaces(its, places, i + 1)

\* lines 2000-2015.  The float product rounds as the exact one does for the discounts
\* 0.20 and 0.15; for 0.18 it can differ at half-way totals, which the runs below do not draw.
PatternBundle(matching, pattern) ==
    LET total == SumSeq([i \in DOMAIN matching |-> Get(matching[i], "unit_price_usd", 0)])
        price == RoundHalfEven(total * (100 - pattern.discount), 2500) * 25
    IN  [NoItem EXCEPT
            !.keys = {"category", "description", "qty", "unit_price_usd", "line_total_usd",
                      "notes", "disclaimer", "bundled_issues"},
            !.category = UpperLit(pattern.category),
            !.description = Text(pattern.name, 1),
            !.qty = 1,
            !.unit_price_usd = price,
            !.line_total_usd = price,
            !.notes = Text({}, 1),
            !.disclaimer = DisclaimerFor(UpperLit(pattern.category), ""),
            !.bundled_issues =
                SumSeq([i \in DOMAIN matching |-> Get(matching[i], "bundled_issues", 1)])]

\* lines 1987-2018: the bundles of patterns k.., given the places already processed
RECURSIVE ApplyPatterns(_, _, _)
ApplyPatterns(its, k, processed) ==
    IF k > Len(patterns) THEN [consolidated |-> <<>>, processed |-> processed]
    ELSE LET matching == {i \in DOMAIN its \ processed : PatternMatches(its[i], patterns[k])}
         IN  IF Cardinality(matching) > 1
             THEN LET rest == ApplyPatterns(its, k + 1, processed \cup matching)
                  IN  [consolidated |-> <<PatternBundle(AtPlaces(its, matching, 1), patterns[k])>>
                                        \o rest.consolidated,
                       processed |-> rest.processed]
             ELSE ApplyPatterns(its, k + 1, processed)

\* force_category_consolidation: a package of lines 2078-2088 and 2110-2120
ForcePackage(current_package, cat) ==
    LET total == SumSeq([i \in DOMAIN current_package |->
                            Get(current_package[i], "unit_price_usd", 0)])
        price == RoundHalfEven(total * 88, 2500) * 25
    IN  [NoItem EXCEPT
            !.keys = {"category", "description", "qty", "unit_price_usd", "line_total_usd",
                      "notes", "disclaimer", "bundled_issues", "original_items"},
            !.category = cat,
            !.description = create_meaningful_description(current_package, cat),
            !.qty = 1,
            !.unit_price_usd = price,
            !.line_total_usd = price,
            !.notes = create_detailed_notes_from_items(current_package),
            !.disclaimer = DisclaimerFor(cat, ""),
            !.bundled_issues =
                SumSeq([i \in DOMAIN current_package |->
                           Get(current_package[i], "bundled_issues", 1)]),
            !.original_items = current_package]

\* lines 2065-2120: the greedy loop over cat_items[k..], with the open package
RECURSIVE ForcePackages(_, _, _, _, _)
ForcePackages(cat_items, k, cat, current_package, current_issues_count) ==
    IF k > Len(cat_items)
    THEN IF current_package # <<>> THEN <<ForcePackage(current_package, cat)>> ELSE <<>>
    ELSE LET item == cat_items[k]
             item_issues == Get(item, "bundled_issues", 1)
         IN  IF current_issues_count + item_issues > max_per_item(cat) /\ current_package # <<>>
             THEN <<ForcePackage(current_package, cat)>>
                  \o ForcePackages(cat_items, k + 1, cat, <<item>>, item_issues)
             ELSE ForcePackages(cat_items, k + 1, cat, Append(current_package, item),
                                current_issues_count + item_issues)

ForceCategory(cat_items, cat) ==
    IF Len(cat_items) = 1 THEN <<cat_items[1]>>
    ELSE ForcePackages(cat_items, 1, cat, <<>>, 0)

force_category_consolidation(its) ==
    LET order == CategoryOrder(its, {})
    IN  Concat([i \in DOMAIN order |-> ForceCategory(OfCategory(its, order[i]), order[i])])

\* the item count over which aggressive_consolidation forces category packages
ForceTarget == 18

aggressive_consolidation(its) ==
    LET bundled == ApplyPatterns(its, 1, {})
        consolidated == bundled.consolidated \o AtPlaces(its, DOMAIN its \ bundled.processed, 1)
    IN  IF Len(consolidated) > ForceTarget THEN force_category_consolidation(consolidated)
        ELSE consolidated

\* lines 2731-2733: over TooManyItems items the list is consolidated again and cut to KeptItems
TooManyItems == 30
KeptItems == 25

CapItems(its) ==
    IF Len(its) > TooManyItems
    THEN SubSeq(aggressive_consolidation(its), 1, Min(KeptItems, Len(aggressive_consolidation(its))))
    ELSE its

\* TRADE_KEYWORDS of trade_categorizer.py, keyed by the case-folded trade name
TRADE_KEYWORDS ==
    [c \in CategorySet |->
        CASE c = "plumbing" ->
               [primary |-> {"plumb", "water heater", "toilet", "sink", "faucet", "shower", "tub",
                             "drain", "pipe", "p-trap", "ptrap", "angle stop", "shut-off valve",
                             "gas line", "gas connector", "sediment trap", "drip leg", "tpr valve",
                             "temperature pressure relief", "water supply", "sewer", "hydro"},
                secondary |-> {"leak", "drip", "flow", "pressure", "galvanized", "copper pipe",
                               "pvc", "cpvc", "pex"},
                exclude |-> {"electrical"}]
          [] c = "electrical" ->
               [primary |-> {"electrical", "electric", "wire", "wiring", "circuit", "breaker",
                             "panel", "outlet", "receptacle", "gfci", "afci", "ground", "neutral",
                             "voltage", "amp", "ampere", "switch", "dimmer", "junction box"},
                secondary |-> {"smoke detector", "carbon monoxide", "co detector", "doorbell",
                               "chime", "transformer"},
                exclude |-> {"gas", "water"}]
          [] c = "hvac" ->
               [primary |-> {"hvac", "heating", "cooling", "air condition", "ac unit", "furnace",
                             "heat pump", "condenser", "evaporator", "coil", "refrigerant",
                             "thermostat", "ductwork", "duct", "vent", "register", "return air"},
                secondary |-> {"filter", "condensate", "blower", "fan", "compressor"},
                exclude |-> {"water heater", "dryer vent", "range hood"}]
          [] c = "roof" ->
               [primary |-> {"roof", "shingle", "tile", "flashing", "decking", "underlayment",
                             "ridge", "valley", "eave", "fascia", "soffit", "gutter", "downspout"},
                secondary |-> {"chimney", "skylight", "turbine", "ridge vent", "boot", "cricket"},
                exclude |-> {"attic"}]
          [] c = "foundation" ->
               [primary |-> {"foundation", "slab", "pier", "beam", "footing", "concrete crack",
                             "settlement", "movement", "deflection", "honeycomb", "spalling"},
                secondary |-> {"grading", "drainage", "slope", "swale", "french drain", "moisture",
                               "water intrusion", "brick ledge"},
                exclude |-> {}]
          [] c = "windows/doors" ->
               [primary |-> {"window", "door", "sliding", "french door", "patio door", "entry",
                             "screen", "glass", "glazing", "weather strip", "threshold", "jamb"},
                secondary |-> {"hardware", "lock", "deadbolt", "handle", "hinge", "closer",
                               "door stop", "strike plate", "sill"},
                exclude |-> {"garage door opener"}]
          [] c = "attic" ->
               [primary |-> {"attic", "insulation", "r-value", "blown-in", "batt",
                             "radiant barrier", "attic ladder", "pull-down stair", "attic access",
                             "purlin"},
                secondary |-> {"ventilation", "soffit vent", "ridge vent", "gable vent"},
                exclude |-> {"roof"}]
          [] c = "miscellaneous" ->
               [primary |-> {"appliance", "dishwasher", "disposal", "garbage disposal", "range",
                             "oven", "cooktop", "microwave", "refrigerator", "garage door"},
                secondary |-> {"deck", "patio", "fence", "driveway", "sidewalk", "landscaping"},
                exclude |-> {}]]

\* the keywords occurring in a lower-cased category string
StrKeywords(s) ==
    CASE s.txt = "plumbing"      -> {"plumb", "plumbing"}
      [] s.txt = "electrical"    -> {"electrical", "electric"}
      [] s.txt = "hvac"          -> {"hvac"}
      [] s.txt = "roof"          -> {"roof"}
      [] s.txt = "foundation"    -> {"foundation"}
      [] s.txt = "windows/doors" -> {"window", "door"}
      [] s.txt = "attic"         -> {"attic"}
      [] OTHER                   -> {}

\* category_scores[category] of categorize_by_trade
TradeScore(c, kw) ==
    Max(0, 3 * Cardinality(kw \cap TRADE_KEYWORDS[c].primary)
           + Cardinality(kw \cap TRADE_KEYWORDS[c].secondary)
           - 5 * Cardinality(kw \cap TRADE_KEYWORDS[c].exclude))

\* max(category_scores, key=category_scores.get): the first trade with the highest score
RECURSIVE BestTrade(_, _, _)
BestTrade(kw, i, best) ==
    IF i > Len(CATEGORIES) THEN best
    ELSE BestTrade(kw, i + 1,
                   IF TradeScore(CATEGORIES[i], kw) > TradeScore(CATEGORIES[best], kw)
                   THEN i ELSE best)

\* categorize_by_trade(description, notes, section), section being a category string
categorize_by_trade(description, notes, section) ==
    LET section_kw == StrKeywords(section)
        kw == description.kw \cup notes.kw \cup section_kw
        best == BestTrade(kw, 1, 1)
    IN  IF TradeScore(CATEGORIES[best], kw) > 0 THEN UpperLit(CATEGORIES[best])
        ELSE IF section_kw \cap {"plumb", "water"} # {} THEN UpperLit("plumbing")
        ELSE IF section_kw \cap {"electric"} # {} THEN UpperLit("electrical")
        ELSE IF section_kw \cap {"hvac", "heat", "cool"} # {} THEN UpperLit("hvac")
        ELSE IF section_kw \cap {"roof"} # {} THEN UpperLit("roof")
        ELSE IF section_kw \cap {"foundation", "slab"} # {} THEN UpperLit("foundation")
        ELSE IF section_kw \cap {"window", "door"} # {} THEN UpperLit("windows/doors")
        ELSE IF section_kw \cap {"attic"} # {} THEN UpperLit("attic")
        ELSE UpperLit("miscellaneous")

\* normalize_category(category, description, notes): category.upper() is not stripped
normalize_category(category, description, notes) ==
    IF InPriceMatrix(Upper(category)) THEN Upper(category)
    ELSE categorize_by_trade(description, notes, category)

\* Quality diagnostics: consolidation guidance and validation, the five factor scores
\* and calculate_quality_score

\* CATEGORY_CONSOLIDATION_RULES[c]["target_ratio"] in tenths, keyed by case-folded text
TargetRatioTable ==
    [c \in CategorySet |->
        CASE c = "roof"          -> 55
          [] c = "electrical"    -> 40
          [] c = "plumbing"      -> 35
          [] c = "hvac"          -> 30
          [] c = "foundation"    -> 20
          [] c = "windows/doors" -> 30
          [] c = "attic"         -> 40
          [] c = "miscellaneous" -> 30]

\* get_consolidation_guidance(category, issue_count); target_ratio is in tenths.  The
\* quotients are floats of an int by an int or by a ratio that is an exact float, so
\* round() sees a half exactly when the true quotient is one.
get_consolidation_guidance(category, issue_count) ==
    LET cat == Strip(Upper(category))
        rule == IF InPriceMatrix(cat) THEN cat.txt ELSE "miscellaneous"
        target == TargetRatioTable[rule]
        cap == MaxPerItemTable[rule]
        by_ratio == Max(1, RoundHalfEven(10 * issue_count, target))
        per_item == RoundHalfEven(issue_count, by_ratio)
        by_cap == Max(1, RoundHalfEven(issue_count, cap))
    IN  [category |-> cat,
         issue_count |-> issue_count,
         recommended_items |-> IF per_item > cap THEN by_cap ELSE by_ratio,
         issues_per_item |-> IF per_item > cap THEN RoundHalfEven(issue_count, by_cap)
                             ELSE per_item,
         target_ratio |-> target,
         max_per_item |-> cap,
         bundling_strategy |-> IF rule = "roof" THEN "aggressive"
                               ELSE IF rule = "foundation" THEN "conservative"
                               ELSE "moderate",
         reason |-> rule]

\* validate_category_consolidation with a band that excludes its two ends
validate_category_consolidation_open_band(category, issue_count, actual_items) ==
    LET guidance == get_consolidation_guidance(category, issue_count)
        target == guidance.target_ratio
        below == actual_items > 0 /\ 100 * issue_count <= 7 * target * actual_items
        above == actual_items <= 0 \/ 100 * issue_count >= 13 * target * actual_items
        is_acceptable == ~below /\ ~above
    IN  [keys |-> {"category", "is_acceptable", "issue_count", "actual_items", "actual_ratio",
                   "recommended_items", "target_ratio", "acceptable_range"}
                  \cup (IF is_acceptable THEN {} ELSE {"warning"}),
         category |-> category,
         is_acceptable |-> is_acceptable,
         issue_count |-> issue_count,
         actual_items |-> actual_items,
         actual_ratio |-> [inf |-> actual_items <= 0,
                           hundredths |-> IF actual_items > 0
                                          THEN RoundHalfEven(100 * issue_count, actual_items)
                                          ELSE 0],
         recommended_items |-> guidance.recommended_items,
         target_ratio |-> target,
         warning |-> IF is_acceptable THEN ""
                     ELSE IF below THEN "UNDER-CONSOLIDATED" ELSE "OVER-CONSOLIDATED"]

\* validate_category_consolidation(category, issue_count, actual_items).  The band is
\* 0.7 * target_ratio <= issue_count / actual_items <= 1.3 * target_ratio, here
\* cross-multiplied; the float comparison gives the same answer for every count below
\* 200 issues and 60 items.  actual_ratio is in hundredths, or infinite with no items.
\* warning holds the kind of the warning; the display strings are left out.
validate_category_consolidation(category, issue_count, actual_items) ==
    LET guidance == get_consolidation_guidance(category, issue_count)
        target == guidance.target_ratio
        below == actual_items > 0 /\ 100 * issue_count < 7 * target * actual_items
        above == actual_items <= 0 \/ 100 * issue_count > 13 * target * actual_items
        is_acceptable == ~below /\ ~above
    IN  [keys |-> {"category", "is_acceptable", "issue_count", "actual_items", "actual_ratio",
                   "recommended_items", "target_ratio", "acceptable_range"}
                  \cup (IF is_acceptable THEN {} ELSE {"warning"}),
         category |-> category,
         is_acceptable |-> is_acceptable,
         issue_count |-> issue_count,
         actual_items |-> actual_items,
         actual_ratio |-> [inf |-> actual_items <= 0,
                           hundredths |-> IF actual_items > 0
                                          THEN RoundHalfEven(100 * issue_count, actual_items)
                                          ELSE 0],
         recommended_items |-> guidance.recommended_items,
         target_ratio |-> target,
         warning |-> IF is_acceptable THEN ""
                     ELSE IF below THEN "UNDER-CONSOLIDATED" ELSE "OVER-CONSOLIDATED"]

\* lines 502-511: the pricing category of an issue of the findings file
IssueCategory(issue) ==
    map_extraction_category_to_pricing(Get(issue, "section", EmptyText),
                                       Get(issue, "component", EmptyText),
                                       Get(issue, "title", EmptyText))

\* lines 516-520 and 839-843: the category an item is counted under
CountedCategory(item) ==
    LET cat == Get(item, "category", MISC)
    IN  IF cat = Str("", cat.cas, FALSE) THEN MISC ELSE Strip(Upper(cat))

\* validate_all_category_consolidation(issues, items): categories with issues and no
\* item are skipped; overall_ratio is in hundredths
validate_all_category_consolidation(issues, its) ==
    LET IssuesIn(c) == Cardinality({i \in DOMAIN issues : IssueCategory(issues[i]) = c})
        ItemsIn(c) == Cardinality({i \in DOMAIN its : CountedCategory(its[i]) = c})
        validated == {c \in {IssueCategory(issues[i]) : i \in DOMAIN issues} : ItemsIn(c) # 0}
        category_validations ==
            [c \in validated |-> validate_category_consolidation(c, IssuesIn(c), ItemsIn(c))]
    IN  [all_acceptable |-> \A c \in validated : category_validations[c].is_acceptable,
         category_validations |-> category_validations,
         total_issues |-> Len(issues),
         total_items |-> Len(its),
         overall_ratio |-> IF its # <<>> THEN RoundHalfEven(100 * Len(issues), Len(its)) ELSE 0]

\* QUALITY_WEIGHTS in percent, QUALITY_THRESHOLDS in hundredths of a point
QUALITY_WEIGHTS ==
    [consolidation_quality |-> 30, price_consistency |-> 25, priority_distribution |-> 20,
     data_completeness |-> 15, category_distribution |-> 10]

QUALITY_THRESHOLDS ==
    [excellent |-> 9000, good |-> 8000, acceptable |-> 7000, needs_review |-> 6000, poor |-> 0]

\* a factor's record when its weight is not applied to its score
Scored_unweighted(num, den, weight) ==
    [score |-> RoundHalfEven(10 * num, den),
     weight |-> weight,
     weighted_score |-> RoundHalfEven(num * 100, den)]

\* The head of a factor's record for the score num / den: "score" is round(score, 1) in
\* tenths of a point, "weighted_score" is round(score * weight, 2) in hundredths
Scored(num, den, weight) ==
    [score |-> RoundHalfEven(10 * num, den),
     weight |-> weight,
     weighted_score |-> RoundHalfEven(num * weight, den)]

\* lines 586-611: the factor's record for the validation of the categories
ConsolidationScore(validation) ==
    LET acceptable_count ==
            Cardinality({c \in DOMAIN validation.category_validations :
                            validation.category_validations[c].is_acceptable})
        total_count == Cardinality(DOMAIN validation.category_validations)
        weight == QUALITY_WEIGHTS.consolidation_quality
        head == Scored(IF validation.all_acceptable THEN 100
                       ELSE IF total_count > 0 THEN 100 * acceptable_count ELSE 50,
                       IF ~validation.all_acceptable /\ total_count > 0 THEN total_count ELSE 1,
                       weight)
    IN  [score |-> head.score, weight |-> weight, weighted_score |-> head.weighted_score,
         details |-> validation]

score_consolidation_quality(issues, its) ==
    ConsolidationScore(validate_all_category_consolidation(issues, its))

\* lines 642-648: price / issue_count of the items whose issue_count is positive, the
\* count being item.get("consolidated_issue_count", 1)
RECURSIVE PricesPerIssue(_)
PricesPerIssue(its) ==
    IF its = <<>> THEN <<>>
    ELSE LET issue_count == Get(Head(its), "consolidated_issue_count", 1)
         IN  (IF issue_count > 0
              THEN <<Frac(Get(Head(its), "unit_price_usd", 0), issue_count)>>
              ELSE <<>>) \o PricesPerIssue(Tail(its))

FracLess(a, b) == a.num * b.den < b.num * a.den

\* sorted(prices)[len(prices) // 2]
MedianOf(prices) ==
    LET median_idx == Len(prices) \div 2
        at == CHOOSE i \in DOMAIN prices :
                /\ Cardinality({j \in DOMAIN prices : FracLess(prices[j], prices[i])}) <= median_idx
                /\ Cardinality({j \in DOMAIN prices : ~FracLess(prices[i], prices[j])}) > median_idx
    IN  prices[at]

\* line 668: p > median * 3 or (median > 0 and p < median * 0.3)
IsOutlier(p, median) ==
    \/ p.num * median.den > 3 * median.num * p.den
    \/ median.num > 0 /\ 10 * p.num * median.den < 3 * median.num * p.den

score_price_consistency(its) ==
    LET weight == QUALITY_WEIGHTS.price_consistency
        prices_per_issue == PricesPerIssue(its)
        median == MedianOf(prices_per_issue)
        outlier_count ==
            Cardinality({i \in DOMAIN prices_per_issue : IsOutlier(prices_per_issue[i], median)})
        head == Scored(Max(0, 100 * Len(prices_per_issue) - 200 * outlier_count),
                       Len(prices_per_issue), weight)
    IN  IF its = <<>>
        THEN [score |-> 0, weight |-> weight, weighted_score |-> 0,
              median_price_per_issue |-> 0, outlier_count |-> 0, total_items |-> 0]
        ELSE IF prices_per_issue = <<>>
        THEN [score |-> 500, weight |-> weight, weighted_score |-> 50 * weight,
              median_price_per_issue |-> 0, outlier_count |-> 0, total_items |-> Len(its)]
        ELSE [score |-> head.score, weight |-> weight, weighted_score |-> head.weighted_score,
              median_price_per_issue |-> RoundHalfEven(100 * median.num, median.den),
              outlier_count |-> outlier_count, total_items |-> Len(its)]

\* targets that put five points of MEDIUM on LOW
EXPECTED_PRIORITY_DISTRIBUTION_shifted == [HIGH |-> 35, MEDIUM |-> 40, LOW |-> 25]

\* EXPECTED_PRIORITY_DISTRIBUTION in percent
EXPECTED_PRIORITY_DISTRIBUTION == [HIGH |-> 35, MEDIUM |-> 45, LOW |-> 20]

\* lines 717-727: the priority an issue is counted under (the priorities drawn here are
\* upper-case and unpadded, so upper().strip() leaves them as they are)
CountedPriority(issue) ==
    LET priority == Get(issue, "priority", "MEDIUM")
    IN  IF priority \in {"HIGH", "MEDIUM", "LOW"} THEN priority ELSE "MEDIUM"

Abs(x) == IF x >= 0 THEN x ELSE -x

\* actual_distribution is in tenths of a percent
score_priority_distribution(issues) ==
    LET weight == QUALITY_WEIGHTS.priority_distribution
        total == Len(issues)
        priority_counts ==
            [p \in {"HIGH", "MEDIUM", "LOW"} |->
                Cardinality({i \in DOMAIN issues : CountedPriority(issues[i]) = p})]
        \* total_deviation * 100 * total
        deviation ==
            Abs(100 * priority_counts["HIGH"] - EXPECTED_PRIORITY_DISTRIBUTION.HIGH * total)
            + Abs(100 * priority_counts["MEDIUM"] - EXPECTED_PRIORITY_DISTRIBUTION.MEDIUM * total)
            + Abs(100 * priority_counts["LOW"] - EXPECTED_PRIORITY_DISTRIBUTION.LOW * total)
        head == Scored(Max(0, 400 * total - 5 * deviation), 4 * total, weight)
    IN  IF issues = <<>>
        THEN [score |-> 0, weight |-> weight, weighted_score |-> 0,
              actual_distribution |-> <<>>, priority_counts |-> <<>>]
        ELSE [score |-> head.score, weight |-> weight, weighted_score |-> head.weighted_score,
              actual_distribution |->
                  [p \in {"HIGH", "MEDIUM", "LOW"} |-> RoundHalfEven(1000 * priority_counts[p], total)],
              priority_counts |-> priority_counts]

\* lines 789-792: every required field is present and not blank
IsComplete(item) ==
    /\ {"category", "description", "unit_price_usd", "notes"} \subseteq item.keys
    /\ item.category.txt # ""
    /\ item.description # EmptyText
    /\ item.notes # EmptyText

score_data_completeness(its) ==
    LET weight == QUALITY_WEIGHTS.data_completeness
        complete_items == Cardinality({i \in DOMAIN its : IsComplete(its[i])})
        head == Scored(100 * complete_items, Len(its), weight)
    IN  IF its = <<>>
        THEN [score |-> 0, weight |-> weight, weighted_score |-> 0,
              complete_items |-> 0, total_items |-> 0]
        ELSE [score |-> head.score, weight |-> weight, weighted_score |-> head.weighted_score,
              complete_items |-> complete_items, total_items |-> Len(its)]

\* max_category_ratio is in tenths of a percent; the score over 60% is
\* 100 - (max_ratio - 0.60) * 250 = 250 * (total - max_count) / total
score_category_distribution(its) ==
    LET weight == QUALITY_WEIGHTS.category_distribution
        total == Len(its)
        category_counts ==
            [c \in {CountedCategory(its[i]) : i \in DOMAIN its} |->
                Cardinality({i \in DOMAIN its : CountedCategory(its[i]) = c})]
        max_count == CHOOSE n \in {category_counts[c] : c \in DOMAIN category_counts} :
                        \A c \in DOMAIN category_counts : category_counts[c] <= n
        head == IF 5 * max_count > 3 * total
                THEN Scored(Max(0, 250 * (total - max_count)), total, weight)
                ELSE Scored(100, 1, weight)
    IN  IF its = <<>>
        THEN [score |-> 0, weight |-> weight, weighted_score |-> 0,
              category_counts |-> <<>>, max_category_ratio |-> 0]
        ELSE [score |-> head.score, weight |-> weight, weighted_score |-> head.weighted_score,
              category_counts |-> category_counts,
              max_category_ratio |-> RoundHalfEven(1000 * max_count, total)]

\* lines 913-927, on the total in hundredths of a point
GradeOf(total_score) ==
    IF total_score >= QUALITY_THRESHOLDS.excellent THEN "EXCELLENT"
    ELSE IF total_score >= QUALITY_THRESHOLDS.good THEN "GOOD"
    ELSE IF total_score >= QUALITY_THRESHOLDS.acceptable THEN "ACCEPTABLE"
    ELSE IF total_score >= QUALITY_THRESHOLDS.needs_review THEN "NEEDS REVIEW"
    ELSE "POOR"

\* calculate_quality_score(issues, items): overall_score is round(total_score, 1) in
\* tenths of a point; grade and needs_review come from the unrounded total_score
QualityRecord(consolidation_score, price_score, priority_score, completeness_score, category_score) ==
    LET total_score == consolidation_score.weighted_score + price_score.weighted_score
                       + priority_score.weighted_score + completeness_score.weighted_score
                       + category_score.weighted_score
    IN  [overall_score |-> RoundHalfEven(total_score, 10),
         grade |-> GradeOf(total_score),
         breakdown |-> [consolidation |-> consolidation_score,
                        price_consistency |-> price_score,
                        priority_distribution |-> priority_score,
                        data_completeness |-> completeness_score,
                        category_distribution |-> category_score],
         needs_review |-> total_score < QUALITY_THRESHOLDS.acceptable,
         thresholds |-> QUALITY_THRESHOLDS]

calculate_quality_score(issues, its) ==
    QualityRecord(score_consolidation_quality(issues, its), score_price_consistency(its),
                  score_priority_distribution(issues), score_data_completeness(its),
                  score_category_distribution(its))

\* assemble_estimate, lines 2404-2417
AssembleItem(item) ==
    LET category == normalize_category(Get(item, "category", NoStr),
                                       Get(item, "description", EmptyText),
                                       Get(item, "notes", EmptyText))
        normalized == SetKey(item, "category", category)
    IN  IF Get(item, "disclaimer", "") = ""
        THEN SetKey(normalized, "disclaimer", DisclaimerFor(category, "generic"))
        ELSE normalized

\* compute_category_totals: category -> total
compute_category_totals(its) ==
    [c \in {ItemCategory(its[i]) : i \in DOMAIN its} |->
        SumSeq([i \in DOMAIN its |->
                   IF ItemCategory(its[i]) = c THEN Get(its[i], "line_total_usd", 0) ELSE 0])]

compute_summary(its) ==
    [total_usd |-> SumSeq([i \in DOMAIN its |-> Get(its[i], "line_total_usd", 0)]),
     items_count |-> Len(its)]

\* assemble_estimate(findings, items, city, state, consolidation_check,
\* category_consolidation, quality_score); the three diagnostics are non-empty dicts
assemble_estimate(its, consolidation_check, category_consolidation, quality_score) ==
    LET normalized == [i \in DOMAIN its |-> AssembleItem(its[i])]
    IN  [items |-> normalized,
         category_totals |-> compute_category_totals(normalized),
         summary |-> compute_summary(normalized),
         quality_score |-> quality_score,
         quality_checks |-> [consolidation |-> consolidation_check,
                             category_consolidation |-> category_consolidation]]

\* call_gemini_for_individual_pricing run to its end on a cache miss: the rows for the
\* given outcome of each call
Phase1Rows(issues, outcomes) ==
    Concat([i \in DOMAIN issues |-> PriceOneIssue(issues[i], i, outcomes[i]).rows])

\* the issues main() hands to the pricing step
NormalizedOf(issues) == [i \in DOMAIN issues |-> NormalizeIssue(issues[i])]

\* findings files: short ones of every make-up, and long ones of one or two trades
MaxMainIssues == 2
MaxBigRun == 47

LeakFinding ==
    [NoFinding EXCEPT
        !.keys = {"section", "title", "description", "severity", "priority", "location"},
        !.section = Text({"plumbing", "plumb"}, 3),
        !.title = Text({"active leak", "leak", "bathroom", "bath"}, 1),
        !.description = Text({"active leak", "leak"}, 1),
        !.severity = LowerLit("minor"), !.priority = "HIGH",
        !.location = Text({"bathroom", "bath"}, 2)]

KnobFinding ==
    [NoFinding EXCEPT
        !.keys = {"section", "component", "title", "description", "notes", "severity"},
        !.section = Text({"door"}, 2), !.component = Text({"door"}, 2),
        !.title = Text({"worn knob", "worn", "knob", "door"}, 4),
        !.description = Text({"worn"}, 4), !.notes = Text({}, 2),
        !.severity = Str("minor", "mixed", FALSE)]

OtherFinding ==
    [NoFinding EXCEPT
        !.keys = {"section", "title", "description", "priority"},
        !.section = Text({}, 5), !.title = Text({}, 5), !.description = Text({}, 5),
        !.priority = "LOW"]

HvacFinding ==
    [NoFinding EXCEPT
        !.keys = {"section", "title", "description", "severity", "priority"},
        !.section = Text({"hvac", "heating", "air condition"}, 6),
        !.title = Text({"cooling"}, 6), !.description = Text({}, 6),
        !.severity = LowerLit("moderate"), !.priority = "MEDIUM"]

PierFinding ==
    [NoFinding EXCEPT
        !.keys = {"section", "title", "description", "severity"},
        !.section = Text({"foundation"}, 7),
        !.title = Text({"pier"}, 7), !.description = Text({"pier"}, 7),
        !.severity = LowerLit("moderate")]

CrackFinding == [PierFinding EXCEPT !.title = Text({"crack"}, 8), !.description = Text({"crack"}, 8)]

FindingLists ==
    UNION {[1..n -> {LeakFinding, KnobFinding, OtherFinding}] : n \in 0..MaxMainIssues}
    \cup {Rep(HvacFinding, MaxBigRun),
          Rep(HvacFinding, MaxBigRun) \o Rep(PierFinding, MaxBigRun),
          Rep(HvacFinding, MaxBigRun) \o Rep(CrackFinding, MaxBigRun)}

\* command lines and environments: --no-ai, --no-consolidate, --region, GEMINI_API_KEY set,
\* the config module importable, the findings file readable
Regions == {"Default", "Rural Texas"}

MainArgs ==
    {[no_ai |-> TRUE, no_consolidate |-> nc, region |-> rg, api_key |-> FALSE, config |-> TRUE,
      readable |-> TRUE] : nc \in BOOLEAN, rg \in Regions}
    \cup {[no_ai |-> FALSE, no_consolidate |-> nc, region |-> "Default", api_key |-> k,
           config |-> TRUE, readable |-> TRUE] : nc \in BOOLEAN, k \in BOOLEAN}
    \cup {[no_ai |-> FALSE, no_consolidate |-> nc, region |-> "Rural Texas", api_key |-> TRUE,
           config |-> TRUE, readable |-> TRUE] : nc \in BOOLEAN}
    \cup {[no_ai |-> na, no_consolidate |-> FALSE, region |-> "Default", api_key |-> k,
           config |-> FALSE, readable |-> TRUE] : na \in BOOLEAN, k \in BOOLEAN}
    \cup {[no_ai |-> TRUE, no_consolidate |-> FALSE, region |-> "Default", api_key |-> FALSE,
           config |-> TRUE, readable |-> FALSE]}

\* what the oracle does at each call: short lists get every combination, long ones the
\* same kind of answer at every call
AnswerKinds == {"full", "odd", "pair", "malformed", "transport"}

Answer(kind, issue) ==
    CASE kind = "full" -> [kind |-> "object", item |-> OracleFull(issue, 450), price |-> 0]
      [] kind = "odd"  -> [kind |-> "object", item |-> OracleOdd(issue), price |-> 0]
      [] kind = "pair" -> [kind |-> "object", item |-> OraclePair(issue), price |-> 0]
      [] kind = "malformed" ->
            [kind |-> "malformed", item |-> NoItem,
             price |-> 25 * RoundHalfEven(9 * FallbackBase(issue), 250)]
      [] OTHER ->
            [kind |-> "transport", item |-> NoItem,
             price |-> 25 * RoundHalfEven(11 * FallbackBase(issue), 250)]

AnswerPlans(n) ==
    IF n <= MaxMainIssues THEN [1..n -> AnswerKinds]
    ELSE {[i \in 1..n |-> k] : k \in AnswerKinds}

\* .estimate_cache as an earlier or a concurrent run over the same issues may have left it
PriorCaches(issues) ==
    LET key == CacheKey(NormalizedOf(issues), prompt_version)
        rows == Phase1Rows(NormalizedOf(issues),
                           [i \in DOMAIN issues |-> Answer("full", NormalizedOf(issues)[i])])
    IN  {NoFile, key :> PartialFile, key :> JsonDump(rows, 0)}

InitMain ==
    /\ FnIdle
    /\ pc = [r \in Runs |-> "off"]
    /\ p1_issues = [r \in Runs |-> <<>>]
    /\ p1_idx = [r \in Runs |-> 0]
    /\ p1_items = [r \in Runs |-> <<>>]
    /\ p1_ret = [r \in Runs |-> <<>>]
    /\ p1_calls = [r \in Runs |-> 0]
    /\ p1_log = [r \in Runs |-> <<>>]
    /\ p1_after = [r \in Runs |-> {}]
    /\ mpc = "start"
    /\ margs \in MainArgs
    /\ findings \in FindingLists
    /\ cache \in (IF ~margs.no_ai /\ (margs.api_key \/ ~margs.config) /\ findings # <<>>
                  THEN PriorCaches(findings) ELSE {NoFile})
    /\ normalized_issues = <<>>
    /\ items = <<>>
    /\ diag = <<>>
    /\ estimate = <<>>
    /\ io = <<>>

p1Locals == <<pc, p1_issues, p1_idx, p1_items, p1_ret, p1_calls, p1_log, p1_after>>

\* lines 2537-2549: load the findings; an unreadable file or an empty issue list ends the run
MainLoadFindings ==
    /\ mpc = "start"
    /\ mpc' = IF margs.readable /\ findings # <<>> THEN "loaded" ELSE "exit1"
    /\ UNCHANGED <<io, margs, findings, normalized_issues, items, diag, estimate, cache, p1Locals, fnVars>>

\* lines 2551-2573
MainNormalize ==
    /\ mpc = "loaded"
    /\ findings' = fix_priority_classification(findings)
    /\ normalized_issues' = NormalizedOf(fix_priority_classification(findings))
    /\ mpc' = "normalized"
    /\ UNCHANGED <<io, margs, items, diag, estimate, cache, p1Locals, fnVars>>

\* a Phase 1 that never misses its configuration
Phase1Aborts_never(args) == FALSE

\* lines 1707-1708: call_gemini_for_individual_pricing raises at once when the config
\* module could not be imported (lines 43-46); main() then ends the run (lines 2600-2602)
Phase1Aborts(args) == ~args.config

\* lines 2576-2605: the API key check, then Phase 1 (its configuration check, a cache
\* hit, an unreadable cache file, or one oracle call per issue and the cache write) and
\* code_based_consolidation
MainPriceWithAI ==
    /\ mpc = "normalized"
    /\ ~margs.no_ai
    /\ LET key == CacheKey(normalized_issues, prompt_version)
       IN  IF ~margs.api_key \/ Phase1Aborts(margs)
           THEN mpc' = "exit1" /\ UNCHANGED <<items, cache, io>>
           ELSE IF key \in DOMAIN cache
           THEN /\ io' = <<"cache lookup", "cache read">>
                /\ IF cache[key].complete
                   THEN /\ items' = code_based_consolidation(JsonLoadItems(cache[key]))
                        /\ mpc' = "priced"
                        /\ UNCHANGED cache
                   ELSE mpc' = "exit1" /\ UNCHANGED <<items, cache>>
           ELSE \E plan \in AnswerPlans(Len(normalized_issues)) :
                   LET rows == Phase1Rows(normalized_issues,
                                          [i \in DOMAIN normalized_issues |->
                                              Answer(plan[i], normalized_issues[i])])
                   IN  /\ io' = <<"cache lookup">> \o Rep("oracle call", Len(normalized_issues))
                                 \o <<"cache write">>
                       /\ cache' = (key :> JsonDump(rows, 0)) @@ cache
                       /\ items' = code_based_consolidation(rows)
                       /\ mpc' = "priced"
    /\ UNCHANGED <<margs, findings, normalized_issues, diag, estimate, p1Locals, fnVars>>

\* lines 2606-2634
MainPriceWithoutAI ==
    /\ mpc = "normalized"
    /\ margs.no_ai
    /\ LET priced_items == [i \in DOMAIN normalized_issues |-> NoAiRow(normalized_issues[i])]
       IN  items' = IF ~margs.no_consolidate THEN code_based_consolidation(priced_items)
                    ELSE priced_items
    /\ mpc' = "priced"
    /\ UNCHANGED <<io, margs, findings, normalized_issues, diag, estimate, cache, p1Locals, fnVars>>

\* line 2637
MainStabilize ==
    /\ mpc = "priced"
    /\ items' = stabilize_prices(items)
    /\ mpc' = "stabilized"
    /\ UNCHANGED <<io, margs, findings, normalized_issues, diag, estimate, cache, p1Locals, fnVars>>

\* line 2644
MainRegional ==
    /\ mpc = "stabilized"
    /\ items' = apply_regional_adjustment(items, margs.region)
    /\ mpc' = "adjusted"
    /\ UNCHANGED <<io, margs, findings, normalized_issues, diag, estimate, cache, p1Locals, fnVars>>

\* lines 2689-2719: the quality gate when it rejects the estimate
AfterQualityGate_rejecting(quality_score) ==
    IF quality_score.overall_score < 700 THEN "exit1" ELSE "validated"

\* lines 2689-2719: where the run goes after the quality gate, which compares the
\* reported overall_score with PRODUCTION_QUALITY_THRESHOLD = 70.0 and only logs
AfterQualityGate(quality_score) == "validated"

\* lines 2646-2719: the diagnostics read the issues and the items and change neither
MainValidate ==
    /\ mpc = "adjusted"
    /\ diag' = [consolidation_check |-> validate_consolidation_ratio(Len(findings), Len(items)),
                category_consolidation |-> validate_all_category_consolidation(findings, items),
                quality_score |-> calculate_quality_score(findings, items)]
    /\ mpc' = AfterQualityGate(calculate_quality_score(findings, items))
    /\ UNCHANGED <<io, margs, findings, normalized_issues, items, estimate, cache, p1Locals, fnVars>>

\* lines 2721-2728
MainSort ==
    /\ mpc = "validated"
    /\ items' = SortItems(items)
    /\ mpc' = "sorted"
    /\ UNCHANGED <<io, margs, findings, normalized_issues, diag, estimate, cache, p1Locals, fnVars>>

\* lines 2730-2733
MainCap ==
    /\ mpc = "sorted"
    /\ items' = CapItems(items)
    /\ mpc' = "capped"
    /\ UNCHANGED <<io, margs, findings, normalized_issues, diag, estimate, cache, p1Locals, fnVars>>

\* lines 2735-2745: assemble_estimate normalizes the items' categories in place
MainAssemble ==
    /\ mpc = "capped"
    /\ estimate' = assemble_estimate(items, diag.consolidation_check,
                                     diag.category_consolidation, diag.quality_score)
    /\ items' = estimate'.items
    /\ mpc' = "assembled"
    /\ UNCHANGED <<io, margs, findings, normalized_issues, diag, cache, p1Locals, fnVars>>

\* lines 2747-2761: the estimate is printed or written
MainEmit ==
    /\ mpc = "assembled"
    /\ mpc' = "emitted"
    /\ UNCHANGED <<io, margs, findings, normalized_issues, items, diag, estimate, cache, p1Locals, fnVars>>

NextMain ==
    \/ MainLoadFindings
    \/ MainNormalize
    \/ MainPriceWithAI
    \/ MainPriceWithoutAI
    \/ MainStabilize
    \/ MainRegional
    \/ MainValidate
    \/ MainSort
    \/ MainCap
    \/ MainAssemble
    \/ MainEmit

SpecMain == InitMain /\ [][NextMain]_vars

-----------------------------------------------------------------------------
(* The functions of the diagnostics and of main()'s price and priority      *)
(* steps, each applied to inputs drawn at the start                         *)

\* issues handed to the quality score: a trade and a priority ("" : no priority key)
QIssue(section, priority) ==
    [NoFinding EXCEPT
        !.keys = {"section", "title", "description"}
                 \cup (IF priority = "" THEN {} ELSE {"priority"}),
        !.section = Text(section, 1), !.title = Text({}, 1), !.description = Text({}, 1),
        !.priority = priority]

QIssueTypes ==
    << QIssue({"hvac"}, "HIGH"), QIssue({"hvac"}, "MODERATE"), QIssue({"hvac"}, "LOW"),
       QIssue({"roof"}, "") >>

\* items handed to the quality score: a priced row, a row with a blank note, a free row
\* and a row without category and price
QItem(category, price, bundled, notes) ==
    [NoItem EXCEPT
        !.keys = {"description", "qty", "notes", "bundled_issues"}
                 \cup (IF category = NoStr THEN {} ELSE {"category"})
                 \cup (IF price < 0 THEN {} ELSE {"unit_price_usd", "line_total_usd"}),
        !.category = category,
        !.description = Text({}, 1),
        !.qty = 1,
        !.unit_price_usd = Max(price, 0),
        !.line_total_usd = Max(price, 0),
        !.notes = notes,
        !.bundled_issues = bundled]

QItemTypes ==
    << QItem(UpperLit("roof"), 100, 1, Text({}, 1)),
       QItem(UpperLit("hvac"), 1000, 1, EmptyText),
       QItem(Str("hvac", "mixed", TRUE), 0, 1, Text({}, 1)),
       QItem(NoStr, -1, 1, Text({}, 1)) >>

\* items handed to score_price_consistency: the same, and a bundle of three issues
SpcItemTypes == QItemTypes \o << QItem(UpperLit("roof"), 900, 3, Text({}, 1)) >>

MaxQIssues == 3
MaxQItems == 3

\* the lists of at most n of the given types
ListsOf(types, n) ==
    {[i \in 1..Len(pick) |-> types[pick[i]]] : pick \in UNION {[1..k -> DOMAIN types] : k \in 0..n}}

QInputs == {<<issues, its>> : issues \in ListsOf(QIssueTypes, MaxQIssues),
                              its \in ListsOf(QItemTypes, MaxQItems)}

\* (category, issue_count, actual_items) handed to validate_category_consolidation
MaxVccIssues == 40
MaxVccItems == 10

VccInputs ==
    {<<c, n, k>> : c \in {UpperLit("roof"), UpperLit("hvac"), UpperLit("plumbing"),
                          UpperLit("foundation"), Str("electrical", "lower", TRUE),
                          UpperLit("garage")},
                   n \in 0..MaxVccIssues, k \in 0..MaxVccItems}

\* issues handed to fix_priority_classification: the keywords of their text and the
\* priority they carry ("" : no priority key)
FpcIssue(title, description, priority) ==
    [NoFinding EXCEPT
        !.keys = {"section", "title", "description"}
                 \cup (IF priority = "" THEN {} ELSE {"priority"}),
        !.section = Text({}, 1), !.title = Text(title, 1), !.description = Text(description, 1),
        !.priority = priority]

FpcIssueTypes ==
    {FpcIssue(t, d, p) : t \in {{}, {"gas leak"}, {"paint"}},
                         d \in {{}, {"crack"}, {"worn", "worn knob"}},
                         p \in {"", "HIGH", "MEDIUM", "LOW"}}

MaxFpcIssues == 2

FpcInputs == UNION {[1..n -> FpcIssueTypes] : n \in 0..MaxFpcIssues}

\* items handed to stabilize_prices: a unit price (-1: no price key) and a quantity
StabItem(price, qty) ==
    [QItem(UpperLit("roof"), price, 1, Text({}, 1)) EXCEPT !.qty = qty, !.line_total_usd = 0]

StabPrices == {-1, 0, 50, 74, 75, 88, 300, 312, 313, 1000, 1001, 2500, 2513, 5000, 5001, 8000}

MaxStabItems == 2

StabInputs ==
    UNION {[1..n -> {StabItem(p, q) : p \in StabPrices, q \in {1, 2}}] : n \in 0..MaxStabItems}

\* (category, issue_count) handed to get_consolidation_guidance
GcgInputs == {<<t[1], t[2]>> : t \in VccInputs}

\* issues handed to score_priority_distribution: h HIGH, m middle and l LOW issues, with
\* the priorities written out, or as fix_priority_classification leaves issues whose
\* text holds a safety keyword, no keyword, a maintenance keyword
MaxSpdHigh == 7
MaxSpdMedium == 9
MaxSpdLow == 4

SpdList(h, m, l, kind) ==
    IF kind = "written"
    THEN Rep(FpcIssue({}, {}, "HIGH"), h) \o Rep(FpcIssue({}, {}, "MEDIUM"), m)
         \o Rep(FpcIssue({}, {}, "LOW"), l)
    ELSE fix_priority_classification(
             Rep(FpcIssue({"gas leak"}, {}, ""), h) \o Rep(FpcIssue({}, {}, "HIGH"), m)
             \o Rep(FpcIssue({"paint"}, {}, "LOW"), l))

\* round(x, 1) and round(x, 2) of a float that stands for an exact half can fall on
\* either side; the lists whose exact score is such a half are not drawn
SpdTie(h, m, l) ==
    LET total == h + m + l
        deviation == Abs(100 * h - 35 * total) + Abs(100 * m - 45 * total)
                     + Abs(100 * l - 20 * total)
        num == Max(0, 400 * total - 5 * deviation)
    IN  /\ total > 0
        /\ \/ (20 * num) % (4 * total) = 0 /\ (10 * num) % (4 * total) # 0
           \/ (40 * num) % (4 * total) = 0 /\ (20 * num) % (4 * total) # 0

SpdInputs ==
    {SpdList(h, m, l, kind) : h \in 0..MaxSpdHigh, m \in 0..MaxSpdMedium, l \in 0..MaxSpdLow,
                              kind \in {"written", "classified"}}
    \ {SpdList(h, m, l, kind) : <<h, m, l>> \in {t \in (0..MaxSpdHigh) \X (0..MaxSpdMedium)
                                                         \X (0..MaxSpdLow) :
                                                     SpdTie(t[1], t[2], t[3])},
                                kind \in {"written", "classified"}}

InitFn2 ==
    /\ P1Idle
    /\ MainIdle
    /\ ret = <<>>
    /\ \/ fn = "calculate_quality_score" /\ arg \in QInputs
       \/ fn = "score_price_consistency" /\ arg \in ListsOf(SpcItemTypes, MaxQItems)
       \/ fn = "validate_category_consolidation" /\ arg \in VccInputs
       \/ fn = "fix_priority_classification" /\ arg \in FpcInputs
       \/ fn = "stabilize_prices" /\ arg \in StabInputs
       \/ fn = "score_priority_distribution" /\ arg \in SpdInputs
       \/ fn = "get_consolidation_guidance" /\ arg \in GcgInputs

Call_calculate_quality_score ==
    /\ fn = "calculate_quality_score"
    /\ ret = <<>>
    /\ ret' = <<calculate_quality_score(arg[1], arg[2])>>
    /\ UNCHANGED <<fn, arg, p1Vars, mainVars>>

Call_score_price_consistency ==
    /\ fn = "score_price_consistency"
    /\ ret = <<>>
    /\ ret' = <<score_price_consistency(arg)>>
    /\ UNCHANGED <<fn, arg, p1Vars, mainVars>>

Call_validate_category_consolidation ==
    /\ fn = "validate_category_consolidation"
    /\ ret = <<>>
    /\ ret' = <<validate_category_consolidation(arg[1], arg[2], arg[3])>>
    /\ UNCHANGED <<fn, arg, p1Vars, mainVars>>

Call_fix_priority_classification ==
    /\ fn = "fix_priority_classification"
    /\ ret = <<>>
    /\ ret' = <<fix_priority_classification(arg)>>
    /\ UNCHANGED <<fn, arg, p1Vars, mainVars>>

Call_stabilize_prices ==
    /\ fn = "stabilize_prices"
    /\ ret = <<>>
    /\ ret' = <<stabilize_prices(arg)>>
    /\ UNCHANGED <<fn, arg, p1Vars, mainVars>>

Call_score_priority_distribution ==
    /\ fn = "score_priority_distribution"
    /\ ret = <<>>
    /\ ret' = <<score_priority_distribution(arg)>>
    /\ UNCHANGED <<fn, arg, p1Vars, mainVars>>

Call_get_consolidation_guidance ==
    /\ fn = "get_consolidation_guidance"
    /\ ret = <<>>
    /\ ret' = <<get_consolidation_guidance(arg[1], arg[2])>>
    /\ UNCHANGED <<fn, arg, p1Vars, mainVars>>

NextFn2 ==
    \/ Call_calculate_quality_score
    \/ Call_score_price_consistency
    \/ Call_validate_category_consolidation
    \/ Call_fix_priority_classification
    \/ Call_stabilize_prices
    \/ Call_score_priority_distribution
    \/ Call_get_consolidation_guidance

SpecFn2 == InitFn2 /\ [][NextFn2]_vars

-----------------------------------------------------------------------------
(* Claims about main() *)

\* the issues the emitted estimate accounts for
SumBundled(its) == SumSeq([i \in DOMAIN its |-> Get(its[i], "bundled_issues", 0)])

\* C1: in every run that emits an estimate, the bundled_issues of its items add up to the
\* number of input issues
C1_CountPreserved ==
    mpc = "emitted" => SumBundled(estimate.items) = Len(findings)

-----------------------------------------------------------------------------
(* Phase 1 claims *)

\* the row was built by create_fallback_pricing for this issue
IsFallbackRow(row, issue) ==
    /\ "discount_justification" \in row.keys
    /\ row.notes = FallbackNotes
    /\ row.unit_price_usd \in FallbackPrices(issue)
    /\ row.category = Get(issue, "suggested_category", MISC)

RowRefersTo(row, i, issue) ==
    /\ {"original_issue_id", "original_issue", "bundled_issues"} \subseteq row.keys
    /\ row.original_issue_id = i - 1
    /\ row.original_issue = issue
    /\ row.bundled_issues = 1

\* C2: a run of Phase 1 that returns gives one row per input issue, in input order;
\* row i refers to issue i (original_issue_id = i - 1, 0-based) and has
\* bundled_issues = 1, for oracle-priced and fallback-priced rows alike and whatever
\* bundled_issues the oracle answered.
C2_OneRowPerIssue ==
    \A r \in Runs :
        pc[r] = "done" =>
            /\ Len(p1_ret[r]) = Len(p1_issues[r])
            /\ \A i \in 1..Len(p1_ret[r]) : RowRefersTo(p1_ret[r][i], i, p1_issues[r][i])

\* a returned two-issue run whose first row is the oracle answer that claimed
\* bundled_issues = 3 (the only answer with priority HIGH) and whose second is a fallback
C2_Witness ==
    \E r \in Runs :
        /\ pc[r] = "done"
        /\ p1_log[r] = <<"oracle", "fallback">>
        /\ p1_ret[r][1].priority = "HIGH"
        /\ p1_ret[r][1].bundled_issues = 1

\* C3: whatever the pattern of per-issue oracle failures, the pricing loop never
\* raises (a run only raises before its first oracle call, on the cache read), rows
\* and processed issues stay in step, and exactly the failing issues hold a
\* fallback-priced row while the others hold the oracle's row.
C3_FailuresStayLocal ==
    \A r \in Runs :
        /\ pc[r] = "raised" => p1_calls[r] = 0
        /\ Len(p1_items[r]) = p1_idx[r]
        /\ Len(p1_log[r]) = p1_idx[r]
        /\ \A i \in 1..Len(p1_items[r]) :
              /\ p1_log[r][i] = "fallback" <=> IsFallbackRow(p1_items[r][i], p1_issues[r][i])
              /\ p1_log[r][i] = "oracle" =>
                    \E o \in OracleObjects(p1_issues[r][i]) :
                        p1_items[r][i] = Stamp(o, i, p1_issues[r][i])

\* a run that returned after its first call failed and its second call was answered
C3_Witness ==
    \E r \in Runs :
        /\ pc[r] = "done"
        /\ p1_calls[r] = 2
        /\ p1_log[r] = <<"fallback", "oracle">>
        /\ Len(p1_ret[r]) = 2

\* C4: a run that begins after another run over the same issue list has returned
\* computes the same cache key, makes no oracle call and returns the same rows,
\* fallback-priced rows included.
C4_CacheDeterminism ==
    \A q \in Runs : \A r \in p1_after[q] :
        /\ CacheKey(p1_issues[q], prompt_version) = CacheKey(p1_issues[r], prompt_version)
        /\ pc[q] \in {"check", "done"}
        /\ p1_calls[q] = 0
        /\ pc[q] = "done" => p1_ret[q] = p1_ret[r]

\* the later run has returned, and the first run had priced an issue by fallback
C4_Witness ==
    \E q \in Runs : \E r \in p1_after[q] :
        /\ pc[q] = "done"
        /\ "fallback" \in {p1_log[r][i] : i \in DOMAIN p1_log[r]}
        /\ p1_ret[q] # <<>>

-----------------------------------------------------------------------------
(* Claims about the pure functions *)

Enforced == fn = "enforce_consolidation_limits" /\ ret # <<>>

\* C5: after enforce_consolidation_limits no output item stands for more issues than
\* the max_per_item of its category (MISCELLANEOUS's for an unknown category), whether
\* its bundled_issues is a list of issues or an integer count.
C5_NoItemOverCap ==
    Enforced =>
        \A i \in DOMAIN ret[1] :
            Get(ret[1][i], "bundled_issues", BIList(<<>>)).kind \in {"list", "int"}
                => IssueCount(ret[1][i]) <= max_per_item(Get(ret[1][i], "category", MISC))

WithinCap(item) ==
    Get(item, "bundled_issues", BIList(<<>>)).kind = "other"
    \/ IssueCount(item) <= max_per_item(Get(item, "category", MISC))

\* C6: enforce_consolidation_limits is idempotent (a second run on its output returns
\* that output), and a list whose items are all within their caps comes back unchanged.
C6_Idempotent ==
    /\ (fn = "enforce_consolidation_limits" /\ Len(ret) = 2) => ret[2] = ret[1]
    /\ (Enforced /\ \A i \in DOMAIN arg : WithinCap(arg[i])) => ret[1] = arg

\* the second run has been made on an output in which an item had been split
C6_Witness ==
    /\ fn = "enforce_consolidation_limits"
    /\ Len(ret) = 2
    /\ Len(ret[1]) > Len(arg)

\* an item the splitter must split: its issue list is longer than the cap
OverCapList(item) ==
    /\ Get(item, "bundled_issues", BIList(<<>>)).kind = "list"
    /\ IssueCount(item) > max_per_item(Get(item, "category", MISC))

\* the number of output items the claim gives an input item
PartsDue(item) ==
    IF OverCapList(item)
    THEN Ceil(IssueCount(item), max_per_item(Get(item, "category", MISC)))
    ELSE 1

PartsBefore(its, i) == SumSeq([j \in 1..(i - 1) |-> PartsDue(its[j])])

\* C7: an item whose issue list of length n exceeds its cap m is replaced by exactly
\* ceil(n/m) parts, each non-empty with at most m issues, whose issue lists
\* concatenated in part order are the original list.
C7_SplitKeepsIssues ==
    Enforced =>
        /\ Len(ret[1]) = PartsBefore(arg, Len(arg) + 1)
        /\ \A i \in DOMAIN arg :
              OverCapList(arg[i]) =>
                 LET parts == SubSeq(ret[1], PartsBefore(arg, i) + 1, PartsBefore(arg, i + 1))
                     lists == [k \in DOMAIN parts |-> parts[k].bundled_issues.list]
                 IN  /\ \A k \in DOMAIN parts :
                           /\ parts[k].bundled_issues.kind = "list"
                           /\ lists[k] # <<>>
                           /\ Len(lists[k]) <= max_per_item(Get(arg[i], "category", MISC))
                     /\ Concat(lists) = arg[i].bundled_issues.list

\* an HVAC item (cap 3) listing 7 issues has been split, after another item
C7_Witness ==
    /\ Enforced
    /\ Len(arg) = 2
    /\ arg[2].category = UpperLit("hvac")
    /\ arg[2].bundled_issues = BIList(<<1, 2, 3, 4, 5, 6, 7>>)
    /\ Len(ret[1]) = 4

Consolidated == fn = "code_based_consolidation" /\ ret # <<>>

CountOf(its, c) == Len(SelectSeq(its, LAMBDA it : ItemCategory(it) = c))

\* C8: from Phase-1 rows (one issue each), code_based_consolidation emits for every
\* category with n >= 1 rows and cap m exactly ceil(n/m) line items, none bundling more
\* than m issues; 28 ROOF rows (cap 8) give 4 line items.
C8_CategoryLineItems ==
    Consolidated =>
        /\ \A i \in DOMAIN arg :
              LET c == ItemCategory(arg[i])
              IN  /\ CountOf(ret[1], c) = Ceil(CountOf(arg, c), max_per_item(c))
                  /\ \A k \in DOMAIN ret[1] :
                        ItemCategory(ret[1][k]) = c
                            => Get(ret[1][k], "bundled_issues", 1) <= max_per_item(c)
        /\ (Len(arg) = 28 /\ \A i \in DOMAIN arg : ItemCategory(arg[i]) = UpperLit("roof"))
              => (Len(ret[1]) = 4 /\ \A k \in DOMAIN ret[1] : ret[1][k].bundled_issues <= 8)

\* 28 ROOF rows have been consolidated
C8_Witness ==
    /\ Consolidated
    /\ Len(arg) = 28
    /\ ItemCategory(arg[28]) = UpperLit("roof")
    /\ Len(ret[1]) = 4

Bundled == fn = "create_consolidated_line_item" /\ ret # <<>>

MemberTotal == SumSeq([i \in DOMAIN arg |-> Get(arg[i], "unit_price_usd", 0)])

\* C9: a bundle's price is the multiple of 25 nearest to (sum of member unit prices)
\* x (1 - d), with d = 0% for 1 member, 5% for 2, 10% for 3 or more, and
\* discount_applied = d; members priced 150, 150 and 400 give 625.
C9_BundlePrice ==
    Bundled =>
        LET n == Len(arg)
            d == IF n = 1 THEN 0 ELSE IF n = 2 THEN 5 ELSE 10
            exact100 == MemberTotal * (100 - d)
            price == ret[1].unit_price_usd
        IN  /\ ret[1].discount_applied = d
            /\ price % 25 = 0
            /\ 100 * price - exact100 <= 1250
            /\ exact100 - 100 * price <= 1250
            /\ ret[1].line_total_usd = price
            /\ ([i \in DOMAIN arg |-> Get(arg[i], "unit_price_usd", 0)] = <<150, 150, 400>>)
                  => price = 625

\* the bundle of members priced 150, 150 and 400 has been built
C9_Witness ==
    /\ Bundled
    /\ Len(arg) = 3
    /\ arg[1].unit_price_usd = 150 /\ arg[2].unit_price_usd = 150 /\ arg[3].unit_price_usd = 400
    /\ ret[1].unit_price_usd = 625
    /\ ret[1].discount_applied = 10

MatrixPrices ==
    {CATEGORY_SEVERITY_PRICE_MATRIX[c][sv] : c \in CategorySet, sv \in Severities}

\* C10: get_base_price returns the matrix entry of the category and severity named by
\* its arguments once case and surrounding whitespace are ignored, using the
\* MISCELLANEOUS row for an unknown category and the moderate column for an unknown
\* severity (both when both are unknown); it always returns a price of the matrix.
C10_BasePrice ==
    (fn = "get_base_price" /\ ret # <<>>) =>
        LET c == IF arg[1].txt \in CategorySet THEN arg[1].txt ELSE "miscellaneous"
            sv == IF arg[2].txt \in Severities THEN arg[2].txt ELSE "moderate"
        IN  /\ ret[1] = CATEGORY_SEVERITY_PRICE_MATRIX[c][sv]
            /\ ret[1] \in MatrixPrices

\* the lookup has been made for a padded mixed-case known category and an unknown severity
C10_Witness ==
    /\ fn = "get_base_price"
    /\ ret = <<800>>
    /\ arg[1] = Str("roof", "mixed", TRUE)
    /\ arg[2].txt = "deficient"

\* C11: every case of test_pricing_matrix holds, so the test reports that all pricing
\* tests passed; in particular the price of an unknown category with severity moderate
\* is 250.
C11_PricingTestsPass ==
    fn = "test_pricing_matrix" /\ ret # <<>> => ret[1] = TRUE

-----------------------------------------------------------------------------
(* Claims about the diagnostics *)

Factors ==
    {"consolidation", "price_consistency", "priority_distribution", "data_completeness",
     "category_distribution"}

FixedWeights ==
    [consolidation |-> 30, price_consistency |-> 25, priority_distribution |-> 20,
     data_completeness |-> 15, category_distribution |-> 10]

\* C12: for every pair of issue list and item list (empty lists and items with zero or
\* missing prices included) calculate_quality_score returns an overall_score in [0,100]:
\* each of the five sub-scores lies in [0,100], each enters the total with its fixed
\* weight (30, 25, 20, 15 and 10 percent, which add up to 100 percent), and the
\* overall_score is the total of the weighted scores rounded to one decimal.
C12_ScoreInRange ==
    (fn = "calculate_quality_score" /\ ret # <<>>) =>
        LET q == ret[1]
            total == SumSeq([i \in 1..5 |->
                        q.breakdown[<<"consolidation", "price_consistency",
                                      "priority_distribution", "data_completeness",
                                      "category_distribution">>[i]].weighted_score])
        IN  /\ q.overall_score \in 0..1000
            /\ \A f \in Factors :
                   /\ q.breakdown[f].score \in 0..1000
                   /\ q.breakdown[f].weight = FixedWeights[f]
                   /\ Abs(10 * q.breakdown[f].weighted_score
                          - q.breakdown[f].score * FixedWeights[f]) <= 5 + FixedWeights[f] \div 2
            /\ SumSeq([i \in 1..5 |-> FixedWeights[<<"consolidation", "price_consistency",
                                                     "priority_distribution", "data_completeness",
                                                     "category_distribution">>[i]]]) = 100
            /\ Abs(10 * q.overall_score - total) <= 5

\* the score of no issues and two items, one priced 0 and one without a price
C12_Witness ==
    /\ fn = "calculate_quality_score"
    /\ arg = <<(<<>>), <<QItemTypes[3], QItemTypes[4]>> >>
    /\ ret # <<>>
    /\ ret[1].overall_score = 725

\* C13: the grade and the needs_review flag of a quality score agree with the
\* overall_score reported in the same record: EXCELLENT iff it is at least 90, GOOD iff
\* in [80, 90), ACCEPTABLE iff in [70, 80), NEEDS REVIEW iff in [60, 70), POOR otherwise,
\* and needs_review iff it is below 70.
C13_GradeAgreesWithScore ==
    (fn = "calculate_quality_score" /\ ret # <<>>) =>
        LET q == ret[1]
        IN  /\ q.grade = (IF q.overall_score >= 900 THEN "EXCELLENT"
                          ELSE IF q.overall_score >= 800 THEN "GOOD"
                          ELSE IF q.overall_score >= 700 THEN "ACCEPTABLE"
                          ELSE IF q.overall_score >= 600 THEN "NEEDS REVIEW"
                          ELSE "POOR")
            /\ q.needs_review = (q.overall_score < 700)

\* the diagnostics have been computed and the reported overall_score is below 70
LowScoreComputed ==
    /\ DOMAIN diag # {}
    /\ diag.quality_score.overall_score < 700

\* the estimate has been emitted, carrying the low quality score with needs_review set
LowScoreEmitted ==
    /\ mpc = "emitted"
    /\ estimate.quality_score = diag.quality_score
    /\ estimate.quality_score.overall_score < 700
    /\ estimate.quality_score.needs_review

\* the step main() takes from each place after the diagnostics when nothing stops it
StepAfterDiagnostics ==
    [validated |-> "sorted", sorted |-> "capped", capped |-> "assembled",
     assembled |-> "emitted", emitted |-> "emitted"]

ConfigMissing == ~margs.no_ai /\ (~margs.config \/ ~margs.api_key)

\* C15: if required configuration is missing (the config module cannot be loaded, or no
\* API key is set in AI mode), the run aborts with an error before any oracle call is
\* made and before any cache entry is read or written, and no estimate is emitted: such
\* a run never gets past pricing, its step from there is the failed end, it makes no
\* cache access and no oracle call, and it leaves the cache as it found it.
C15_MissingConfigAborts ==
    /\ [](ConfigMissing => /\ io = <<>>
                           /\ DOMAIN estimate = {}
                           /\ mpc \in {"start", "loaded", "normalized", "exit1"})
    /\ [][ConfigMissing => /\ cache' = cache
                           /\ mpc = "normalized" => mpc' = "exit1"]_vars

\* an AI-mode run with an API key and no config module has ended in failure, leaving
\* alone the complete cache entry of its issue list
C15_Witness ==
    /\ mpc = "exit1"
    /\ ~margs.no_ai /\ margs.api_key /\ ~margs.config
    /\ CacheKey(normalized_issues, prompt_version) \in DOMAIN cache
    /\ cache[CacheKey(normalized_issues, prompt_version)].complete
    /\ io = <<>>

-----------------------------------------------------------------------------
(* Claims about main()'s priority and price steps *)

\* the priority the claim gives an issue: by its title, description and notes alone
ClaimedPriority(issue) ==
    LET text == Joined(Get(issue, "title", EmptyText),
                       Joined(Get(issue, "description", EmptyText), Get(issue, "notes", EmptyText)))
    IN  IF Has(text, safety_keywords) THEN "HIGH"
        ELSE IF Has(text, maintenance_keywords) THEN "LOW"
        ELSE "MEDIUM"

\* C16: after fix_priority_classification every issue's priority is HIGH if its text
\* contains a safety/structural keyword, otherwise LOW if it contains a
\* maintenance/cosmetic keyword, otherwise MEDIUM; it is one of HIGH, MEDIUM, LOW and
\* does not depend on the priority the issue carried before.
C16_PriorityByKeywords ==
    (fn = "fix_priority_classification" /\ ret # <<>>) =>
        /\ Len(ret[1]) = Len(arg)
        /\ \A i \in DOMAIN arg :
               /\ "priority" \in ret[1][i].keys
               /\ ret[1][i].priority \in {"HIGH", "MEDIUM", "LOW"}
               /\ ret[1][i].priority = ClaimedPriority(arg[i])

-----------------------------------------------------------------------------
(* Claims about concurrent Phase-1 runs *)

SameFingerprint(q, r) ==
    /\ pc[q] # "idle" /\ pc[r] # "idle"
    /\ CacheKey(p1_issues[q], prompt_version) = CacheKey(p1_issues[r], prompt_version)

\* the run has priced every issue itself and has opened or written the cache file
HasWritten(r) == pc[r] \in {"writing", "done"} /\ p1_calls[r] > 0

\* C17: concurrent runs are safe: no run reads a partially written cache entry (the
\* read raises), a run that returns gives one row per issue, two runs over the same
\* issue list that write the entry write the same content, once every run has
\* returned each entry is complete, and an entry only ever holds rows of a run with
\* that fingerprint.
C17_ConcurrentRunsSafe ==
    /\ \A r \in Runs :
          /\ pc[r] # "raised"
          /\ pc[r] = "done" => Len(p1_ret[r]) = Len(p1_issues[r])
    /\ \A q, r \in Runs :
          (SameFingerprint(q, r) /\ HasWritten(q) /\ HasWritten(r)) => p1_items[q] = p1_items[r]
    /\ (\A r \in Runs : pc[r] = "done") => \A k \in DOMAIN cache : cache[k].complete
    /\ \A k \in DOMAIN cache :
          cache[k].complete =>
              \E r \in Runs : /\ CacheKey(p1_issues[r], prompt_version) = k
                               /\ cache[k].items = p1_items[r]

-----------------------------------------------------------------------------
(* Claims about the factors of the quality score *)

\* the price per issue the claim gives an item: unit price over bundled_issues
ClaimedPricesPerIssue(its) ==
    [i \in DOMAIN its |->
        Frac(Get(its[i], "unit_price_usd", 0), Get(its[i], "bundled_issues", 1))]

\* the score the claim gives a list of items, in tenths of a point: 100 - 200 x the
\* share of items above 3x or below 0.3x the median, and at least 0
ClaimedPriceConsistency(its) ==
    LET values == ClaimedPricesPerIssue(its)
        median == MedianOf(values)
        outliers == Cardinality({i \in DOMAIN values : IsOutlier(values[i], median)})
    IN  RoundHalfEven(10 * Max(0, 100 * Len(values) - 200 * outliers), Len(values))

\* C18: for a non-empty list of items score_price_consistency returns
\* max(0, 100 - 200 x outlier_ratio), the outliers being the items whose price per
\* issue (unit price / bundled_issues) is above 3x or below 0.3x the median of these
\* values over all items.
C18_PricePerBundledIssue ==
    (fn = "score_price_consistency" /\ ret # <<>> /\ arg # <<>>) =>
        ret[1].score = ClaimedPriceConsistency(arg)

\* the target ratio of the category's rule, in tenths (categories without a rule use
\* the rule of MISCELLANEOUS)
ClaimedTarget(category) ==
    IF InPriceMatrix(Strip(Upper(category))) THEN TargetRatioTable[Strip(Upper(category)).txt]
    ELSE TargetRatioTable["miscellaneous"]

\* issues_count / items_count is below 0.7 x target, resp. above 1.3 x target
RatioBelowBand(category, n, k) == 100 * n < 7 * ClaimedTarget(category) * k
RatioAboveBand(category, n, k) == 100 * n > 13 * ClaimedTarget(category) * k

Validated == fn = "validate_category_consolidation" /\ ret # <<>>

\* C19: for a category with at least one item validate_category_consolidation answers
\* acceptable iff 0.7 x target_ratio <= issues_count / items_count <= 1.3 x target_ratio,
\* both ends included; when not acceptable the warning is UNDER-CONSOLIDATED exactly
\* when the ratio is below the band and OVER-CONSOLIDATED exactly when it is above,
\* and when acceptable there is no warning.
C19_BandInclusive ==
    (Validated /\ arg[3] > 0) =>
        LET below == RatioBelowBand(arg[1], arg[2], arg[3])
            above == RatioAboveBand(arg[1], arg[2], arg[3])
        IN  /\ ret[1].is_acceptable <=> (~below /\ ~above)
            /\ "warning" \in ret[1].keys <=> ~ret[1].is_acceptable
            /\ ret[1].warning = "UNDER-CONSOLIDATED" <=> below
            /\ ret[1].warning = "OVER-CONSOLIDATED" <=> above

\* HVAC (target 3.0) with 39 issues in 10 items: the ratio 3.9 is the upper end of the
\* band, and it is accepted
C19_Witness ==
    /\ Validated
    /\ arg = <<UpperLit("hvac"), 39, 10>>
    /\ 100 * arg[2] = 13 * ret[1].target_ratio * arg[3]
    /\ ret[1].is_acceptable
    /\ "warning" \notin ret[1].keys

-----------------------------------------------------------------------------
(* Claims about stabilize_prices *)

\* the tier the claim gives a price: minor $0-300, moderate $300-1000, major
\* $1000-2500, replacement $2500-5000
ClaimedTier(p) ==
    IF p <= 300 THEN [min |-> 0, max |-> 300]
    ELSE IF p <= 1000 THEN [min |-> 300, max |-> 1000]
    ELSE IF p <= 2500 THEN [min |-> 1000, max |-> 2500]
    ELSE [min |-> 2500, max |-> 5000]

\* the multiple of 25 nearest to p clamped into its tier
ClaimedStablePrice(p) ==
    RoundHalfEven(Max(ClaimedTier(p).min, Min(ClaimedTier(p).max, p)), 25) * 25

\* C20: stabilize_prices replaces each unit price p by the multiple of 25 nearest to p
\* clamped into the tier chosen by p's own value (minor $0-300, moderate $300-1000,
\* major $1000-2500, replacement $2500-5000): a price between 0 and 300 is changed
\* only by rounding, and a price above 5000 becomes 5000.
C20_ClampedToTier ==
    (fn = "stabilize_prices" /\ ret # <<>>) =>
        /\ Len(ret[1]) = Len(arg)
        /\ \A i \in DOMAIN arg :
               "unit_price_usd" \in arg[i].keys =>
                   ret[1][i].unit_price_usd = ClaimedStablePrice(arg[i].unit_price_usd)

-----------------------------------------------------------------------------
(* Claims about the priority distribution *)

PriorityScored == fn = "score_priority_distribution" /\ ret # <<>> /\ arg # <<>>

\* the number of issues of the list with the given priority
WithPriority(issues, p) ==
    Cardinality({i \in DOMAIN issues : Get(issues[i], "priority", "") = p})

\* 100 - 125 x the sum over HIGH, MEDIUM, LOW of |share - target|, at least 0, in tenths
\* of a point, for a list of total issues with high HIGH and low LOW ones, the others
\* holding the middle priority
ClaimedPriorityScore(high, low, total) ==
    LET deviation == Abs(100 * high - 35 * total) + Abs(100 * (total - high - low) - 45 * total)
                     + Abs(100 * low - 20 * total)
    IN  RoundHalfEven(10 * Max(0, 400 * total - 5 * deviation), 4 * total)

\* C21: score_priority_distribution takes the HIGH / MEDIUM / LOW shares over all the
\* issues it is given and returns max(0, 100 - 125 x sum of |share - target|) against
\* the targets 35% / 45% / 20%; a list that matches 35/45/20 exactly, as the priority
\* classifier leaves it, scores 100.
C21_PriorityDistribution ==
    PriorityScored =>
        LET total == Len(arg)
            high == WithPriority(arg, "HIGH")
            low == WithPriority(arg, "LOW")
        IN  /\ ret[1].score = ClaimedPriorityScore(high, low, total)
            /\ ret[1].priority_counts["HIGH"] + ret[1].priority_counts["MEDIUM"]
                  + ret[1].priority_counts["LOW"] = total
            /\ (100 * high = 35 * total /\ 100 * low = 20 * total) => ret[1].score = 1000

\* twenty classified issues, seven with a safety keyword, four with a maintenance
\* keyword and nine with neither, score 100
C21_Witness ==
    /\ PriorityScored
    /\ arg = SpdList(7, 9, 4, "classified")
    /\ WithPriority(arg, "HIGH") = 7 /\ WithPriority(arg, "LOW") = 4
    /\ ret[1].score = 1000
    /\ ret[1].weighted_score = 2000

-----------------------------------------------------------------------------
(* Claims about the members of consolidated line items *)

\* the rows a line item stands for: the members of a bundle, or the row kept as it is
Members(item) == IF "original_items" \in item.keys THEN item.original_items ELSE <<item>>

\* the rows of a list that belong to the category, in the order of the list
RowsOf(its, c) == SelectSeq(its, LAMBDA it : Get(it, "category", MISC) = c)

\* the members of the line items of a list, one after the other
RECURSIVE AllMembers(_)
AllMembers(its) == IF its = <<>> THEN <<>> ELSE Members(Head(its)) \o AllMembers(Tail(its))

\* C22: for each category, the members of the line items code_based_consolidation
\* emits for it, taken in emission order, are exactly the category's priced rows in
\* their input order: every row is in exactly one line item and each bundle is a
\* contiguous run of the category's rows.
C22_BundlesKeepOrder ==
    Consolidated =>
        /\ Len(AllMembers(ret[1])) = Len(arg)
        /\ \A k \in DOMAIN ret[1] :
               \E i \in DOMAIN arg : Get(arg[i], "category", MISC) = Get(ret[1][k], "category", MISC)
        /\ \A i \in DOMAIN arg :
               LET c == Get(arg[i], "category", MISC)
               IN  AllMembers(RowsOf(ret[1], c)) = RowsOf(arg, c)

\* five rows, HVAC and MISCELLANEOUS in turn, have become two bundles; the first holds
\* the first, third and fifth row
C22_Witness ==
    /\ Consolidated
    /\ Len(arg) = 5
    /\ [i \in 1..5 |-> Get(arg[i], "category", MISC)]
          = <<UpperLit("hvac"), MISC, UpperLit("hvac"), MISC, UpperLit("hvac")>>
    /\ Len(ret[1]) = 2
    /\ [i \in 1..3 |-> ret[1][1].original_items[i].original_issue_id] = <<0, 2, 4>>
    /\ [i \in 1..2 |-> ret[1][2].original_items[i].original_issue_id] = <<1, 3>>

\* C23: a line item built from several members has bundled_issues equal to the sum of
\* its members' bundled_issues counts (a member without the field counting as one),
\* also when a member already stands for more than one issue.
C23_BundledIssuesSum ==
    (Bundled /\ Len(arg) > 1) =>
        ret[1].bundled_issues = SumSeq([i \in DOMAIN arg |-> Get(arg[i], "bundled_issues", 1)])

-----------------------------------------------------------------------------
(* Claims about the prices of split items *)

\* a / b = c / d for exact quotients a, c and counts b, d
SameShare(a, b, c, d) == a.num * d * c.den = c.num * b * a.den

\* the sum of exact quotients
RECURSIVE FracSum(_)
FracSum(fs) ==
    IF fs = <<>> THEN Frac(0, 1)
    ELSE LET rest == FracSum(Tail(fs))
         IN  Frac(Head(fs).num * rest.den + rest.num * Head(fs).den, Head(fs).den * rest.den)

\* C24: when enforce_consolidation_limits splits an over-cap item, each part's price is
\* the share of the original price proportional to the number of issues in the part
\* (price of the part / issues of the part = original price / issues of the item), and
\* the parts' prices sum to the original price.
C24_ProportionalShare ==
    Enforced =>
        \A i \in DOMAIN arg :
            (OverCapList(arg[i]) /\ "line_total_usd" \in arg[i].keys) =>
                LET parts == SubSeq(ret[1], PartsBefore(arg, i) + 1, PartsBefore(arg, i + 1))
                IN  /\ \A k \in DOMAIN parts :
                          SameShare(parts[k].line_total_usd, Len(parts[k].bundled_issues.list),
                                    arg[i].line_total_usd, IssueCount(arg[i]))
                    /\ FracSum([k \in DOMAIN parts |-> parts[k].line_total_usd])
                          = arg[i].line_total_usd

-----------------------------------------------------------------------------
(* Claims about the priority of a consolidated line item *)

\* the place of a priority in the order CRITICAL > HIGH > MEDIUM > LOW
Severity(p) == CHOOSE k \in 1..4 : <<"CRITICAL", "HIGH", "MEDIUM", "LOW">>[k] = p

\* C25: a consolidated line item's priority is the most severe of its members'
\* priorities under the order CRITICAL > HIGH > MEDIUM > LOW, a member without a
\* priority counting as MEDIUM; it is always one of the members' priorities.
C25_MostSeverePriority ==
    Bundled =>
        LET ps == [i \in DOMAIN arg |-> Get(arg[i], "priority", "MEDIUM")]
        IN  /\ \E i \in DOMAIN ps : ret[1].priority = ps[i]
            /\ \A i \in DOMAIN ps : Severity(ret[1].priority) <= Severity(ps[i])

\* members with priority LOW, none, CRITICAL and HIGH make a CRITICAL line item
C25_Witness ==
    /\ Bundled
    /\ Len(arg) = 4
    /\ "priority" \notin arg[2].keys
    /\ [i \in 1..4 |-> Get(arg[i], "priority", "")] = <<"LOW", "", "CRITICAL", "HIGH">>
    /\ ret[1].priority = "CRITICAL"

-----------------------------------------------------------------------------
(* Claims about the consolidation guidance *)

\* C26: for every category and every issue count n >= 1, get_consolidation_guidance
\* recommends at least one item and no more issues per item than the category's hard
\* cap: issues_per_item <= max_per_item.
C26_GuidanceWithinCap ==
    (fn = "get_consolidation_guidance" /\ ret # <<>> /\ arg[2] >= 1) =>
        /\ ret[1].recommended_items >= 1
        /\ ret[1].issues_per_item <= ret[1].max_per_item

-----------------------------------------------------------------------------
(* Claims about the diagnostics of an emitted estimate *)

\* C27: the diagnostics stored in an emitted estimate describe the items it emits: the
\* items_count of the consolidation check and the total_items of the category
\* consolidation check equal summary.items_count and the number of emitted items, on
\* every run, the runs that end consolidation with more than 30 items included.
C27_DiagnosticsDescribeItems ==
    mpc = "emitted" =>
        /\ estimate.summary.items_count = Len(estimate.items)
        /\ estimate.quality_checks.consolidation.items_count = estimate.summary.items_count
        /\ estimate.quality_checks.category_consolidation.total_items
              = estimate.summary.items_count

\* the result of validate_all_category_consolidation inside a computed quality score
QualityScored == fn = "calculate_quality_score" /\ ret # <<>>

CategoryReport == ret[1].breakdown.consolidation.details

\* the items counted under the category
ItemsUnder(its, c) == Cardinality({k \in DOMAIN its : CountedCategory(its[k]) = c})

\* C28: validate_all_category_consolidation reports all_acceptable only if every
\* category that has an issue also has a line item and an issues-per-item ratio inside
\* its band; a category whose issues produced no item is neither counted as acceptable
\* nor left out of the categories the consolidation-quality percentage is taken over.
C28_NoCategoryLeftOut ==
    QualityScored =>
        \A i \in DOMAIN arg[1] :
            LET c == IssueCategory(arg[1][i])
            IN  /\ c \in DOMAIN CategoryReport.category_validations
                /\ CategoryReport.all_acceptable =>
                      /\ ItemsUnder(arg[2], c) >= 1
                      /\ CategoryReport.category_validations[c].is_acceptable

-----------------------------------------------------------------------------
(* Claims about the prices and priorities of an emitted estimate *)

\* C29: in every emitted estimate, after stabilize_prices and apply_regional_adjustment
\* for any region, each item's line_total_usd equals its unit_price_usd times its qty and
\* both are multiples of 25, the oracle-priced items whose qty is greater than 1 included.
C29_LineTotalIsUnitTimesQty ==
    mpc = "emitted" =>
        \A i \in DOMAIN estimate.items :
            LET item == estimate.items[i]
            IN  /\ item.line_total_usd = item.unit_price_usd * item.qty
                /\ item.unit_price_usd % 25 = 0
                /\ item.line_total_usd % 25 = 0

\* the rows of a priced run that create_fallback_pricing made and Phase 1 stamped with
\* their source issue
FallbackPriced(row) ==
    /\ {"original_issue_id", "original_issue"} \subseteq row.keys
    /\ IsFallbackRow(row, row.original_issue)

\* C30: the priority that fix_priority_classification assigned to an issue is the priority
\* its pricing sees: in a pipeline run, a row that create_fallback_pricing made for an
\* issue carries the priority the classifier assigned to that issue.
C30_FallbackKeepsPriority ==
    (mpc = "priced" /\ ~margs.no_ai) =>
        \A k \in DOMAIN items :
            FallbackPriced(items[k]) =>
                Get(items[k], "priority", "MEDIUM")
                    = findings[items[k].original_issue_id + 1].priority

=============================================================================
